---- MODULE Spec2Model ----
(***************************************************************************)
(* Espresso batch validation and sequencing core of the op-node.           *)
(*                                                                         *)
(* Two specifications share this module:                                   *)
(*   SpecCheck  the batch validator (CheckBatchEspresso, checkBookends,    *)
(*              EspressoL1Origin) applied to candidate batches drawn from  *)
(*              bounded sets of Espresso chains, L1 chains and             *)
(*              justifications;                                            *)
(*   Spec       the Espresso-mode sequencer driver (buildEspressoBatch     *)
(*              and what it calls) running against a query service, an L1  *)
(*              origin selector and an engine.                             *)
(*                                                                         *)
(* Optional values (Go pointers that may be nil) are sequences of length   *)
(* 0 or 1.  L1 block n of a chain l1 is l1[n + 1]; Espresso block of       *)
(* height h of a chain hs is hs[h + 1].                                     *)
(***************************************************************************)
EXTENDS Naturals, Sequences, FiniteSets, TLC

VARIABLES
    env,      \* SpecCheck: the scenario (Espresso chain, L1 chain, safe head, conf depth)
    batch,    \* SpecCheck: the last candidate batch handed to the validator (<<>>: none)
    res,      \* SpecCheck: what the validator / the origin selector returned for it
    world,    \* Spec: the environment of the driver (L1 chain, Espresso chain)
    eng,      \* Spec: the engine (unsafe L2 head, sealed payload count)
    seq,      \* Spec: the Sequencer object (espressoBatch, nextAction, mode)
    out       \* Spec: what the last RunNextSequencerAction returned and did

checkVars == <<env, batch, res>>
seqVars == <<world, eng, seq, out>>
vars == <<env, batch, res, world, eng, seq, out>>

----------------------------------------------------------------------------
(* Rollup configuration *)

BlockTime == 2
MaxSequencerDrift == 6

(* Bounds of the model *)

\* Espresso headers in a chain of SpecCheck
HsLen == 4
\* blocks listed by a justification of SpecCheck
MaxBlocks == 2
\* L1 blocks in an L1 chain (numbers 0 .. L1Len-1)
L1Len == 4

(* The safe head of SpecCheck sits at this time: the sequencing window is
   [SafeTime + BlockTime, SafeTime + 2*BlockTime). *)
SafeTime == 10

----------------------------------------------------------------------------
(* Generic helpers *)

Some(x) == <<x>>
None == <<>>
IsSome(o) == Len(o) = 1
Get(o) == o[1]

Last(s) == s[Len(s)]
\* F of the value of v, with v computed once
With(v, F(_)) == CHOOSE r \in {F(x) : x \in {v}} : TRUE

RECURSIVE SeqsUpTo(_, _)
\* all sequences over S of length 0 .. n
SeqsUpTo(S, n) ==
    IF n = 0 THEN {<<>>}
    ELSE LET shorter == SeqsUpTo(S, n - 1)
         IN shorter \cup {Append(s, x) : s \in {t \in shorter : Len(t) = n - 1}, x \in S}

NoRepeat(s) == \A i, j \in 1..Len(s) : i # j => s[i] # s[j]

RECURSIVE Increasing(_)
Increasing(s) == Len(s) <= 1 \/ (s[1] < s[2] /\ Increasing(Tail(s)))

----------------------------------------------------------------------------
(* Espresso headers and their commitments *)

\* espresso.Header: the fields the core reads.  root stands for the NMT
\* transactions root (unique per block); l1_finalized is always absent.
Header(h, ts, l1head, root) ==
    [height |-> h, timestamp |-> ts, l1_head |-> l1head, root |-> root]

\* Header.Commit: a collision-free hash of exactly the committed fields
\* ("BLOCK", timestamp, l1_head, l1_finalized, transactions_root).  The
\* height is not among them.
Commit(h) == <<"BLOCK", h.timestamp, h.l1_head, None, h.root>>

\* L2BatchJustification.First: the earliest header the justification supplies.
First(jst) ==
    IF IsSome(jst.prev) THEN Get(jst.prev)
    ELSE IF Len(jst.blocks) # 0 THEN jst.blocks[1].header
    ELSE Get(jst.next)

----------------------------------------------------------------------------
(* L1 provider *)

\* L1BlockRefByNumber against an L1 chain l1 (a sequence of block times):
\* an error for a block the node does not have (yet).
L1BlockRefByNumber(l1, n) ==
    IF n < Len(l1) THEN [ok |-> TRUE, number |-> n, time |-> l1[n + 1]]
    ELSE [ok |-> FALSE, number |-> 0, time |-> 0]

\* EspressoProvider.VerifyCommitments against the commitments authenticated on
\* L1 for the Espresso chain hs, of which the first `published` are recorded.
\* "err": they cannot be read (a transport error, or not all of them are
\* recorded yet); otherwise "true" / "false".
VerifyCommitmentsNoErr(hs, published, firstHeight, comms) ==
    IF firstHeight + Len(comms) > published THEN "false"
    ELSE IF \A i \in 1..Len(comms) : comms[i] = Commit(hs[firstHeight + i])
         THEN "true" ELSE "false"
VerifyCommitmentsNoOrder(hs, published, firstHeight, comms) ==
    IF firstHeight + Len(comms) > published THEN "err"
    ELSE IF \A i \in 1..Len(comms) : \E k \in 1..published : comms[i] = Commit(hs[k])
         THEN "true" ELSE "false"
VerifyCommitments(hs, published, firstHeight, comms) ==
    IF firstHeight + Len(comms) > published THEN "err"
    ELSE IF \A i \in 1..Len(comms) : comms[i] = Commit(hs[firstHeight + i])
         THEN "true" ELSE "false"

----------------------------------------------------------------------------
(* The L1 origin of an Espresso batch (the validator's selector) *)

NoOrigin == [ok |-> FALSE, number |-> 0, time |-> 0]

\* EspressoL1Origin(cfg, sysCfg, parent, suggested, l1): parent is the L2
\* block built upon, [time, l1origin]; confDepth is
\* sysCfg.EspressoL1ConfDepth.  The result is an L1 block reference, or
\* ok = FALSE where a lookup failed.
EspressoL1OriginWrap(l1, confDepth, parent, suggested0) ==
    LET suggested == (suggested0 + 2^30 - confDepth) % 2^30
        prev == parent.l1origin
        windowStart == parent.time + BlockTime
    IN  IF suggested > prev + 1 THEN
            LET nextL1Block == L1BlockRefByNumber(l1, prev + 1)
            IN  IF ~nextL1Block.ok THEN NoOrigin
                ELSE IF nextL1Block.time <= windowStart THEN nextL1Block
                ELSE L1BlockRefByNumber(l1, prev)
        ELSE IF suggested < prev THEN
            L1BlockRefByNumber(l1, prev)
        ELSE
            LET l1Block == L1BlockRefByNumber(l1, suggested)
            IN  IF ~l1Block.ok THEN NoOrigin
                ELSE IF l1Block.time + MaxSequencerDrift < windowStart
                     THEN L1BlockRefByNumber(l1, prev + 1)
                ELSE IF l1Block.time > windowStart
                     THEN L1BlockRefByNumber(l1, prev)
                ELSE l1Block
EspressoL1OriginSkipAhead(l1, confDepth, parent, suggested0) ==
    LET suggested == IF suggested0 > confDepth THEN suggested0 - confDepth ELSE 0
        prev == parent.l1origin
    IN  IF suggested < prev THEN L1BlockRefByNumber(l1, prev)
        ELSE L1BlockRefByNumber(l1, suggested)
EspressoL1OriginStaysOnSkip(l1, confDepth, parent, suggested0) ==
    LET suggested == IF suggested0 > confDepth THEN suggested0 - confDepth ELSE 0
        prev == parent.l1origin
    IN  IF suggested > prev + 1 \/ suggested < prev THEN L1BlockRefByNumber(l1, prev)
        ELSE EspressoL1OriginSkipAhead(l1, confDepth, parent, suggested0)
EspressoL1Origin(l1, confDepth, parent, suggested0) ==
    LET suggested == IF suggested0 > confDepth THEN suggested0 - confDepth ELSE 0
        prev == parent.l1origin
        windowStart == parent.time + BlockTime
    IN  IF suggested > prev + 1 THEN
            \* Constraint 1: the L1 origin must not skip an L1 block.
            LET nextL1Block == L1BlockRefByNumber(l1, prev + 1)
            IN  IF ~nextL1Block.ok THEN NoOrigin
                ELSE IF nextL1Block.time <= windowStart THEN nextL1Block
                ELSE L1BlockRefByNumber(l1, prev)
        ELSE IF suggested < prev THEN
            \* Constraint 2: the L1 origin number decreased.
            L1BlockRefByNumber(l1, prev)
        ELSE
            LET l1Block == L1BlockRefByNumber(l1, suggested)
            IN  IF ~l1Block.ok THEN NoOrigin
                \* Constraint 3: the L1 origin is too old.
                ELSE IF l1Block.time + MaxSequencerDrift < windowStart
                     THEN L1BlockRefByNumber(l1, prev + 1)
                \* Constraint 4: the L1 origin must not be newer than the L2 batch.
                ELSE IF l1Block.time > windowStart
                     THEN L1BlockRefByNumber(l1, prev)
                ELSE l1Block

EspressoBatchMustBeEmptyNever(l1Origin, timestamp) == FALSE
EspressoBatchMustBeEmpty(l1Origin, timestamp) ==
    l1Origin.time + MaxSequencerDrift < timestamp

----------------------------------------------------------------------------
(* Bookends of the sequencing window *)

\* windowEndpoint.Bookends: the headers that must surround an endpoint of
\* the window; prev is optional.
BookendsStartOnly(endpoint, jst) ==
    [prev |-> jst.prev,
     next |-> IF Len(jst.blocks) # 0 THEN jst.blocks[1].header ELSE Get(jst.next)]
Bookends(endpoint, jst) ==
    IF endpoint = "WindowStart" THEN
        [prev |-> jst.prev,
         next |-> IF Len(jst.blocks) # 0 THEN jst.blocks[1].header ELSE Get(jst.next)]
    ELSE
        [prev |-> IF Len(jst.blocks) # 0 THEN Some(Last(jst.blocks).header) ELSE jst.prev,
         next |-> Get(jst.next)]

checkBookendsNoGenesis(timestamp, jst, endpoint) ==
    LET b == Bookends(endpoint, jst)
    IN  /\ IsSome(b.prev) => Get(b.prev).timestamp < timestamp
        /\ b.next.timestamp >= timestamp
checkBookends(timestamp, jst, endpoint) ==
    LET b == Bookends(endpoint, jst)
    IN  IF ~IsSome(b.prev)
        THEN IF First(jst).height # 0 THEN FALSE
             ELSE IF First(jst).timestamp < timestamp THEN FALSE
             ELSE ~(b.next.timestamp < timestamp)
        ELSE IF Get(b.prev).timestamp >= timestamp THEN FALSE
             ELSE ~(b.next.timestamp < timestamp)

----------------------------------------------------------------------------
(* CheckBatchEspresso *)

\* The commitments CheckBatchEspresso hands to VerifyCommitments.
Comms(jst) ==
    (IF IsSome(jst.prev) THEN <<Commit(Get(jst.prev))>> ELSE <<>>)
    \o [i \in 1..Len(jst.blocks) |-> Commit(jst.blocks[i].header)]
    \o <<Commit(Get(jst.next))>>

\* nmt.ValidateBatchTransactions is an opaque predicate over the roots, the
\* proofs and the transactions of the batch; b.nmt_valid is its answer.
ValidateBatchTransactions(b) == b.nmt_valid

\* CheckBatchEspresso(cfg, sysCfg, l2SafeHead, batch, l1) where e is the
\* environment [hs, published, l1, confDepth] and b the batch.
CheckBatchEspressoNoJst(e, l2SafeHead, b) ==
    IF ~IsSome(b.jst) THEN "accept"
    ELSE
    LET jst == Get(b.jst)
        validComms == VerifyCommitments(e.hs, e.published, First(jst).height, Comms(jst))
        windowStart == l2SafeHead.time + BlockTime
        windowEnd == windowStart + BlockTime
        l1Origin == EspressoL1Origin(e.l1, e.confDepth, l2SafeHead, Get(jst.next).l1_head)
    IN  IF validComms = "err" THEN "undecided"
        ELSE IF validComms = "false" THEN "drop"
        ELSE IF ~checkBookends(windowStart, jst, "WindowStart") THEN "drop"
        ELSE IF ~checkBookends(windowEnd, jst, "WindowEnd") THEN "drop"
        ELSE IF ~l1Origin.ok THEN "undecided"
        ELSE IF l1Origin.number # b.epoch_num THEN "drop"
        ELSE IF EspressoBatchMustBeEmpty(l1Origin, b.timestamp)
             THEN IF Len(b.txs) # 0 THEN "drop" ELSE "accept"
        ELSE IF ~ValidateBatchTransactions(b) THEN "drop"
        ELSE "accept"
CheckBatchEspressoAnyEpoch(e, l2SafeHead, b) ==
    IF ~IsSome(b.jst) THEN "drop"
    ELSE
    LET jst == Get(b.jst)
        validComms == VerifyCommitments(e.hs, e.published, First(jst).height, Comms(jst))
        windowStart == l2SafeHead.time + BlockTime
        windowEnd == windowStart + BlockTime
        l1Origin == EspressoL1Origin(e.l1, e.confDepth, l2SafeHead, Get(jst.next).l1_head)
    IN  IF validComms = "err" THEN "undecided"
        ELSE IF validComms = "false" THEN "drop"
        ELSE IF ~checkBookends(windowStart, jst, "WindowStart") THEN "drop"
        ELSE IF ~checkBookends(windowEnd, jst, "WindowEnd") THEN "drop"
        ELSE IF ~l1Origin.ok THEN "undecided"
        ELSE IF EspressoBatchMustBeEmpty(l1Origin, b.timestamp)
             THEN IF Len(b.txs) # 0 THEN "drop" ELSE "accept"
        ELSE IF ~ValidateBatchTransactions(b) THEN "drop"
        ELSE "accept"
CheckBatchEspressoAwaitsMatch(e, l2SafeHead, b) ==
    IF ~IsSome(b.jst) THEN "drop"
    ELSE
    LET jst == Get(b.jst)
        validComms == VerifyCommitments(e.hs, e.published, First(jst).height, Comms(jst))
        windowStart == l2SafeHead.time + BlockTime
        windowEnd == windowStart + BlockTime
        l1Origin == EspressoL1Origin(e.l1, e.confDepth, l2SafeHead, Get(jst.next).l1_head)
    IN  IF validComms = "err" THEN "undecided"
        ELSE IF validComms = "false" THEN "undecided"
        ELSE IF ~checkBookends(windowStart, jst, "WindowStart") THEN "drop"
        ELSE IF ~checkBookends(windowEnd, jst, "WindowEnd") THEN "drop"
        ELSE IF ~l1Origin.ok THEN "undecided"
        ELSE IF l1Origin.number # b.epoch_num THEN "drop"
        ELSE IF EspressoBatchMustBeEmpty(l1Origin, b.timestamp)
             THEN IF Len(b.txs) # 0 THEN "drop" ELSE "accept"
        ELSE IF ~ValidateBatchTransactions(b) THEN "drop"
        ELSE "accept"
CheckBatchEspresso(e, l2SafeHead, b) ==
    IF ~IsSome(b.jst) THEN "drop"
    ELSE
    LET jst == Get(b.jst)
        validComms == VerifyCommitments(e.hs, e.published, First(jst).height, Comms(jst))
        windowStart == l2SafeHead.time + BlockTime
        windowEnd == windowStart + BlockTime
        l1Origin == EspressoL1Origin(e.l1, e.confDepth, l2SafeHead, Get(jst.next).l1_head)
    IN  IF validComms = "err" THEN "undecided"
        ELSE IF validComms = "false" THEN "drop"
        ELSE IF ~checkBookends(windowStart, jst, "WindowStart") THEN "drop"
        ELSE IF ~checkBookends(windowEnd, jst, "WindowEnd") THEN "drop"
        ELSE IF ~l1Origin.ok THEN "undecided"
        ELSE IF l1Origin.number # b.epoch_num THEN "drop"
        ELSE IF EspressoBatchMustBeEmpty(l1Origin, b.timestamp)
             THEN IF Len(b.txs) # 0 THEN "drop" ELSE "accept"
        ELSE IF ~ValidateBatchTransactions(b) THEN "drop"
        ELSE "accept"

----------------------------------------------------------------------------
(* checkSingularBatch: the generic rules, then the Espresso rules *)

SeqWindowSize == 4

\* types.DepositTxType, the first byte of a deposit transaction
DepositTxType == 126

\* An L1 block reference as the pipeline holds it in l1Blocks.
L1Ref(l1, n) == [number |-> n, time |-> l1[n + 1], hash |-> <<"l1", n>>]

\* The rules of checkSingularBatch that come before the Espresso rules:
\* "pass" if the batch gets through them, else the verdict they give.
\* espresso is sysCfg.Espresso, l1Blocks the L1 blocks from the safe head's
\* origin on, inclusion the number of the L1 inclusion block.
singularPreChecksAnyParent(espresso, l1Blocks, l2SafeHead, b, inclusion) ==
    IF Len(l1Blocks) = 0 THEN "undecided"
    ELSE
    LET epoch == l1Blocks[1]
        nextTimestamp == l2SafeHead.time + BlockTime
        advance == b.epoch_num = epoch.number + 1
        batchOrigin == IF advance /\ Len(l1Blocks) >= 2 THEN l1Blocks[2] ELSE epoch
        max == batchOrigin.time + MaxSequencerDrift
    IN  IF b.timestamp > nextTimestamp THEN "future"
        ELSE IF b.timestamp < nextTimestamp THEN "drop"
        ELSE IF b.epoch_num + SeqWindowSize < inclusion THEN "drop"
        ELSE IF b.epoch_num < epoch.number THEN "drop"
        ELSE IF advance /\ Len(l1Blocks) < 2 THEN "undecided"
        ELSE IF b.epoch_num > epoch.number + 1 THEN "drop"
        ELSE IF b.epoch_hash # batchOrigin.hash THEN "drop"
        ELSE IF b.timestamp < batchOrigin.time THEN "drop"
        ELSE IF b.timestamp > max /\ Len(b.txs) # 0 THEN "drop"
        ELSE IF b.timestamp > max /\ epoch.number = batchOrigin.number
                /\ Len(l1Blocks) < 2 THEN "undecided"
        ELSE IF b.timestamp > max /\ epoch.number = batchOrigin.number
                /\ ~espresso /\ b.timestamp >= l1Blocks[2].time THEN "drop"
        ELSE IF \E i \in 1..Len(b.txs) : Len(b.txs[i]) = 0 THEN "drop"
        ELSE IF \E i \in 1..Len(b.txs) : b.txs[i][1] = DepositTxType THEN "drop"
        ELSE "pass"
singularPreChecksNextOriginRule(espresso, l1Blocks, l2SafeHead, b, inclusion) ==
    IF Len(l1Blocks) = 0 THEN "undecided"
    ELSE
    LET epoch == l1Blocks[1]
        nextTimestamp == l2SafeHead.time + BlockTime
        advance == b.epoch_num = epoch.number + 1
        batchOrigin == IF advance /\ Len(l1Blocks) >= 2 THEN l1Blocks[2] ELSE epoch
        max == batchOrigin.time + MaxSequencerDrift
    IN  IF b.timestamp > nextTimestamp THEN "future"
        ELSE IF b.timestamp < nextTimestamp THEN "drop"
        ELSE IF b.parent_hash # l2SafeHead.hash THEN "drop"
        ELSE IF b.epoch_num + SeqWindowSize < inclusion THEN "drop"
        ELSE IF b.epoch_num < epoch.number THEN "drop"
        ELSE IF advance /\ Len(l1Blocks) < 2 THEN "undecided"
        ELSE IF b.epoch_num > epoch.number + 1 THEN "drop"
        ELSE IF b.epoch_hash # batchOrigin.hash THEN "drop"
        ELSE IF b.timestamp < batchOrigin.time THEN "drop"
        ELSE IF b.timestamp > max /\ Len(b.txs) # 0 THEN "drop"
        ELSE IF b.timestamp > max /\ epoch.number = batchOrigin.number
                /\ Len(l1Blocks) < 2 THEN "undecided"
        ELSE IF b.timestamp > max /\ epoch.number = batchOrigin.number
                /\ b.timestamp >= l1Blocks[2].time THEN "drop"
        ELSE IF \E i \in 1..Len(b.txs) : Len(b.txs[i]) = 0 THEN "drop"
        ELSE IF \E i \in 1..Len(b.txs) : b.txs[i][1] = DepositTxType THEN "drop"
        ELSE "pass"
singularPreChecks(espresso, l1Blocks, l2SafeHead, b, inclusion) ==
    IF Len(l1Blocks) = 0 THEN "undecided"
    ELSE
    LET epoch == l1Blocks[1]
        nextTimestamp == l2SafeHead.time + BlockTime
        advance == b.epoch_num = epoch.number + 1
        batchOrigin == IF advance /\ Len(l1Blocks) >= 2 THEN l1Blocks[2] ELSE epoch
        max == batchOrigin.time + MaxSequencerDrift
    IN  IF b.timestamp > nextTimestamp THEN "future"
        ELSE IF b.timestamp < nextTimestamp THEN "drop"
        ELSE IF b.parent_hash # l2SafeHead.hash THEN "drop"
        ELSE IF b.epoch_num + SeqWindowSize < inclusion THEN "drop"
        ELSE IF b.epoch_num < epoch.number THEN "drop"
        ELSE IF advance /\ Len(l1Blocks) < 2 THEN "undecided"
        ELSE IF b.epoch_num > epoch.number + 1 THEN "drop"
        ELSE IF b.epoch_hash # batchOrigin.hash THEN "drop"
        ELSE IF b.timestamp < batchOrigin.time THEN "drop"
        ELSE IF b.timestamp > max /\ Len(b.txs) # 0 THEN "drop"
        ELSE IF b.timestamp > max /\ epoch.number = batchOrigin.number
                /\ Len(l1Blocks) < 2 THEN "undecided"
        ELSE IF b.timestamp > max /\ epoch.number = batchOrigin.number
                /\ ~espresso /\ b.timestamp >= l1Blocks[2].time THEN "drop"
        ELSE IF \E i \in 1..Len(b.txs) : Len(b.txs[i]) = 0 THEN "drop"
        ELSE IF \E i \in 1..Len(b.txs) : b.txs[i][1] = DepositTxType THEN "drop"
        ELSE "pass"

\* checkSingularBatch(cfg, sysCfg, log, l1Blocks, l2SafeHead, batch,
\* l1InclusionBlock, l1): e is the environment [hs, published, l1,
\* confDepth, espresso].
checkSingularBatchAlwaysEspresso(e, l1Blocks, l2SafeHead, b, inclusion) ==
    LET pre == singularPreChecks(e.espresso, l1Blocks, l2SafeHead, b, inclusion)
    IN  IF pre # "pass" THEN pre
        ELSE CheckBatchEspresso(e, l2SafeHead, b)
checkSingularBatch(e, l1Blocks, l2SafeHead, b, inclusion) ==
    LET pre == singularPreChecks(e.espresso, l1Blocks, l2SafeHead, b, inclusion)
    IN  IF pre # "pass" THEN pre
        ELSE IF e.espresso THEN CheckBatchEspresso(e, l2SafeHead, b)
        ELSE "accept"

----------------------------------------------------------------------------
(* SpecCheck: the validator applied to candidate batches *)

WindowStart0 == SafeTime + BlockTime
WindowEnd0 == WindowStart0 + BlockTime

\* Espresso timestamps: before the window, at its start, at its end.
TsSet == {WindowStart0 - 1, WindowStart0, WindowEnd0}

\* L1 block times relative to the window start
L1Times == {WindowStart0 - MaxSequencerDrift - 3, WindowStart0 - MaxSequencerDrift - 1,
            WindowStart0 - 2, WindowStart0, WindowStart0 + 1}

\* confirmation depths 0 .. MaxConfDepth
MaxConfDepth == 2

\* L1 chains: strictly increasing block times, 1 .. L1Len blocks.
L1Chains == {c \in SeqsUpTo(L1Times, L1Len) : Len(c) >= 1 /\ Increasing(c)}

\* Espresso chain with the given timestamps and L1 heads; the root of a
\* block is unique to it.
HsChain(ts, heads) == [i \in 1..HsLen |-> Header(i - 1, ts[i], heads[i], i - 1)]

\* Scenarios that vary the Espresso chain (any timestamps, also decreasing
\* ones) and the justification, on one L1 chain.
HeaderEnvs ==
    {[kind |-> "headers", hs |-> HsChain(ts, [i \in 1..HsLen |-> 1]), published |-> HsLen,
      l1 |-> <<WindowStart0 - 2 - BlockTime, WindowStart0 - 2>>, confDepth |-> 0,
      safe |-> [time |-> SafeTime, l1origin |-> 0]] :
        ts \in [1..HsLen -> TsSet]}

\* Scenarios that vary the L1 chain, the safe head's origin, the
\* confirmation depth and the L1 head the closing header suggests, on one
\* Espresso chain whose blocks 0, 1 and 2 bracket the window.
OriginTs == [i \in 1..HsLen |-> IF i = 1 THEN WindowStart0 - 1
                                 ELSE IF i = 2 THEN WindowStart0 ELSE WindowEnd0]
OriginEnvs ==
    {[kind |-> "origins", hs |-> HsChain(OriginTs, [i \in 1..HsLen |-> sugg]),
      published |-> pub, l1 |-> c, confDepth |-> d,
      safe |-> [time |-> SafeTime, l1origin |-> p]] :
        <<c, p>> \in {x \in L1Chains \X (0..1) : x[2] < Len(x[1]) /\ x[1][x[2] + 1] <= SafeTime},
        d \in 0..MaxConfDepth, sugg \in 0..(L1Len + 1), pub \in {2, HsLen}}

Block(h, proved) == [header |-> h, proof |-> proved]

\* The first header a justification supplies, with another claimed height.
ClaimHeight(jst, n) ==
    IF IsSome(jst.prev) THEN [jst EXCEPT !.prev[1].height = n]
    ELSE IF Len(jst.blocks) # 0 THEN [jst EXCEPT !.blocks[1].header.height = n]
    ELSE [jst EXCEPT !.next[1].height = n]

\* Justifications over the headers of a chain: any optional prev, any
\* blocks without repetition, any next; the first supplied header states
\* its own height or height 0.
Justifications(hs) ==
    LET H == {hs[i] : i \in 1..Len(hs)}
        honest == {[prev |-> p, blocks |-> [i \in 1..Len(bs) |-> Block(bs[i], TRUE)],
                    next |-> Some(n)] :
                       p \in {None} \cup {Some(h) : h \in H},
                       bs \in {s \in SeqsUpTo(H, MaxBlocks) : NoRepeat(s)},
                       n \in H}
    IN  honest \cup {ClaimHeight(j, 0) : j \in honest}

MkBatch(epoch, txs, valid, jst) ==
    [epoch_num |-> epoch, timestamp |-> WindowStart0, txs |-> txs,
     nmt_valid |-> valid, jst |-> jst]

Batches(e) ==
    IF e.kind = "headers" THEN
        {MkBatch(1, <<>>, TRUE, j) : j \in {None} \cup {Some(x) : x \in Justifications(e.hs)}}
    ELSE
        {MkBatch(ep, txs, v,
                 Some([prev |-> Some(e.hs[1]), blocks |-> <<Block(e.hs[2], TRUE)>>,
                       next |-> Some(e.hs[3])])) :
            ep \in 0..2, txs \in {<<>>, <<1>>}, v \in BOOLEAN}

\* Scenarios for checkSingularBatch: Espresso on or off, L1 chains of two or
\* three blocks whose block 0 is the safe head's origin, the commitments of
\* the Espresso chain recorded in part or in full.
SingularEnvs ==
    {[kind |-> "singular", hs |-> HsChain(OriginTs, [i \in 1..HsLen |-> sugg]),
      published |-> pub, l1 |-> c, confDepth |-> 0, espresso |-> esp,
      safe |-> [time |-> SafeTime, l1origin |-> 0, hash |-> "safe"]] :
        c \in {x \in L1Chains : Len(x) \in 2..3 /\ x[1] <= SafeTime},
        sugg \in 0..2, pub \in {2, HsLen}, esp \in BOOLEAN}

\* The singular batches handed to checkSingularBatch: any of three
\* timestamps, the safe head or another block as parent, an epoch with the
\* hash of the canonical block or of another, transactions that are well
\* formed, empty or deposits, with or without the justification of the window.
SingularBatches(e) ==
    {[epoch_num |-> ep, epoch_hash |-> <<fork, ep>>, parent_hash |-> ph,
      timestamp |-> ts, txs |-> txs, nmt_valid |-> TRUE, jst |-> j] :
        ep \in 0..2, fork \in {"l1", "l1x"}, ph \in {"safe", "other"},
        ts \in {WindowStart0 - BlockTime, WindowStart0, WindowStart0 + BlockTime},
        txs \in {<<>>, <<<<2, 1>>>>, <<<<>>>>, <<<<DepositTxType, 1>>>>},
        j \in {None, Some([prev |-> Some(e.hs[1]), blocks |-> <<Block(e.hs[2], TRUE)>>,
                           next |-> Some(e.hs[3])])}}

NoRes == [op |-> "none", verdict |-> "none", suggested |-> 0, origin |-> NoOrigin]

InitCheckVars ==
    /\ batch = None
    /\ res = NoRes

InitSeqVars ==
    /\ world = [hs |-> <<>>, l1 |-> <<SafeTime - 2>>, confDepth |-> 0]
    /\ eng = [unsafe |-> [number |-> 0, time |-> SafeTime, l1origin |-> 0, fork |-> 0]]
    /\ seq = [mode |-> "Unknown", espressoBatch |-> None, nextAction |-> 0]
    /\ out = [payload |-> None, ret |-> "nil", reset |-> FALSE, verdict |-> "none",
              err |-> "nil"]

InitCheck ==
    /\ env \in HeaderEnvs \cup OriginEnvs \cup SingularEnvs
    /\ InitCheckVars
    /\ InitSeqVars

\* The derivation pipeline hands a batch to CheckBatchEspresso.
CheckBatch ==
    /\ res.op = "none"
    /\ \E b \in Batches(env) :
          /\ batch' = Some(b)
          /\ res' = [op |-> "CheckBatchEspresso",
                     verdict |-> CheckBatchEspresso(env, env.safe, b),
                     suggested |-> 0, origin |-> NoOrigin]
    /\ UNCHANGED <<env, seqVars>>

\* EspressoL1Origin applied to any suggestion.
SelectOrigin ==
    /\ res.op = "none"
    /\ \E s \in 0..(L1Len + 1) :
          res' = [op |-> "EspressoL1Origin", verdict |-> "none", suggested |-> s,
                  origin |-> EspressoL1Origin(env.l1, env.confDepth, env.safe, s)]
    /\ batch' = None
    /\ UNCHANGED <<env, seqVars>>

\* The derivation pipeline hands a singular batch to checkSingularBatch,
\* with the L1 blocks it holds from the safe head's origin on.
CheckSingularBatch ==
    /\ res.op = "none"
    /\ env.kind = "singular"
    /\ \E b \in SingularBatches(env), n \in 0..2, inclusion \in {0, SeqWindowSize + 3} :
          /\ n <= Len(env.l1)
          /\ batch' = Some(b)
          /\ res' = [op |-> "checkSingularBatch",
                     verdict |-> checkSingularBatch(env, [i \in 1..n |-> L1Ref(env.l1, i - 1)],
                                                    env.safe, b, inclusion),
                     suggested |-> 0, origin |-> NoOrigin,
                     l1Blocks |-> [i \in 1..n |-> L1Ref(env.l1, i - 1)],
                     inclusion |-> inclusion]
    /\ UNCHANGED <<env, seqVars>>

\* The record r with field f set to v (added if r has no such field).
WithField(r, f, v) == [g \in DOMAIN r \cup {f} |-> IF g = f THEN v ELSE r[g]]

\* The HotShot contract on L1 comes to record the commitments of the whole
\* Espresso chain while a batch is pending with verdict Undecided.
NewCommitments ==
    /\ res.op \in {"CheckBatchEspresso", "checkSingularBatch"}
    /\ res.verdict = "undecided"
    /\ env.published < HsLen
    /\ env' = [env EXCEPT !.published = HsLen]
    /\ res' = WithField(WithField(res, "of", res.op), "op", "pending")
    /\ UNCHANGED <<batch, seqVars>>

\* The pipeline runs the check again on the batch it kept as Undecided.
Recheck ==
    /\ res.op = "pending"
    /\ LET v == IF res.of = "CheckBatchEspresso"
                THEN CheckBatchEspresso(env, env.safe, Get(batch))
                ELSE checkSingularBatch(env, res.l1Blocks, env.safe, Get(batch),
                                        res.inclusion)
       IN  res' = WithField(WithField(WithField(res, "op", res.of), "verdict", v),
                            "retried", TRUE)
    /\ UNCHANGED <<env, batch, seqVars>>

NextCheck == CheckBatch \/ SelectOrigin \/ CheckSingularBatch \/ NewCommitments \/ Recheck

SpecCheck == InitCheck /\ [][NextCheck]_vars

----------------------------------------------------------------------------
(* The Espresso-mode sequencer driver: what it calls *)

\* Espresso blocks the query service comes to know
DrvHsLen == 3
\* payloads the engine seals
MaxL2Blocks == 2
\* reorgs of the unsafe L2 head
MaxForks == 1

L2Ref(n, t, o, f) == [number |-> n, time |-> t, l1origin |-> o, fork |-> f]

\* The transactions of the rollup's namespace in an Espresso block: blocks
\* of even height carry one, the others none.
TxsInBlock(h) == IF h.root % 2 = 0 THEN <<h.root + 1>> ELSE <<>>

\* L1OriginSelector.FindL1OriginByNumber
FindL1OriginByNumber(l1, n) == L1BlockRefByNumber(l1, n)

\* derive.EspressoL1Origin(cfg, parent, suggested) as sealEspressoBatch
\* calls it: suggested is an L1 block reference, the result a number.
EspressoL1OriginFromRef(parent, suggested) ==
    LET prev == parent.l1origin
        windowStart == parent.time + BlockTime
    IN  IF suggested.number > prev + 1 THEN prev + 1
        ELSE IF suggested.number < prev THEN prev
        ELSE IF suggested.time + MaxSequencerDrift < windowStart THEN prev + 1
        ELSE IF suggested.time > windowStart THEN prev
        ELSE suggested.number

RECURSIVE FirstAtOrAfter(_, _, _)
\* index (1-based) of the first header from index i on with timestamp >= t; 0 if none
FirstAtOrAfter(hs, i, t) ==
    IF i > Len(hs) THEN 0
    ELSE IF hs[i].timestamp >= t THEN i
    ELSE FirstAtOrAfter(hs, i + 1, t)

\* QueryService.FetchRemainingHeadersForWindow(from, end) on the blocks hs
\* the service has.
FetchRemainingHeadersForWindow(hs, from, end) ==
    LET stop == FirstAtOrAfter(hs, from + 1, end)
    IN  IF stop = 0 THEN [window |-> SubSeq(hs, from + 1, Len(hs)), next |-> None]
        ELSE [window |-> SubSeq(hs, from + 1, stop - 1), next |-> Some(hs[stop])]

\* QueryService.FetchHeadersForWindow(start, end)
FetchHeadersForWindow(hs, start, end) ==
    LET i == FirstAtOrAfter(hs, 1, start)
    IN  IF i = 0 THEN [from |-> 0, window |-> <<>>, prev |-> None, next |-> None]
        ELSE LET r == FetchRemainingHeadersForWindow(hs, i - 1, end)
             IN  [from |-> i - 1, window |-> r.window,
                  prev |-> IF i > 1 THEN Some(hs[i - 1]) ELSE None, next |-> r.next]

\* QueryService.FetchTransactionsInBlock(block, header, namespace)
FetchTransactionsInBlock(hs, block, header) ==
    IF block >= Len(hs) \/ Commit(hs[block + 1]) # Commit(header)
    THEN [ok |-> FALSE, txs |-> <<>>]
    ELSE [ok |-> TRUE, txs |-> TxsInBlock(hs[block + 1])]

\* Faults a tick may meet: which call fails, and the class of its error.
\* "txs" fails every fetch of transactions, "txs2" every one but the fetch
\* for the first block of a batch.
NoFault == [at |-> "none", class |-> "none"]
Faults ==
    {NoFault} \cup
    [at : {"mode", "headers", "txs", "txs2", "origin", "attrs", "start", "confirm"},
     class : {"temporary", "reset", "critical", "unclassified"}]

\* A query service that answers, as the last block of the window, the block
\* that closes it (fault "window"); any other answers as it should.
AnsweredWindow(blocks, fault) ==
    IF fault.at = "window" /\ IsSome(blocks.next)
    THEN [blocks EXCEPT !.window = Append(@, Get(blocks.next))]
    ELSE blocks

RECURSIVE UpdateLoopUnchecked(_, _, _, _)
\* updateEspressoBatch's loop, were it to take every header it is given
UpdateLoopUnchecked(hs, b, newHeaders, fault) ==
    IF Len(newHeaders) = 0 THEN [batch |-> b, err |-> "nil"]
    ELSE
    LET header == Head(newHeaders)
        blockNum == b.jst.from + Len(b.jst.blocks)
        txs == FetchTransactionsInBlock(hs, blockNum, header)
    IN  IF fault.at = "txs" THEN [batch |-> b, err |-> fault.class]
        ELSE IF ~txs.ok THEN [batch |-> b, err |-> "unclassified"]
        ELSE With([b EXCEPT !.jst.blocks = Append(@, Block(header, TRUE)),
                            !.transactions = @ \o txs.txs],
                  LAMBDA appended :
                      UpdateLoopUnchecked(hs, appended, Tail(newHeaders), fault))

RECURSIVE UpdateLoopBlockFirst(_, _, _, _)
\* updateEspressoBatch's loop, were it to append the block before it fetches
\* the transactions
UpdateLoopBlockFirst(hs, b, newHeaders, fault) ==
    IF Len(newHeaders) = 0 THEN [batch |-> b, err |-> "nil"]
    ELSE
    LET header == Head(newHeaders)
        blockNum == b.jst.from + Len(b.jst.blocks)
        txs == FetchTransactionsInBlock(hs, blockNum, header)
        withBlock == [b EXCEPT !.jst.blocks = Append(@, Block(header, TRUE))]
    IN  IF header.timestamp >= b.windowEnd THEN [batch |-> b, err |-> "critical"]
        ELSE IF fault.at = "txs" THEN [batch |-> withBlock, err |-> fault.class]
        ELSE IF fault.at = "txs2" /\ Len(b.jst.blocks) # 0
             THEN [batch |-> withBlock, err |-> fault.class]
        ELSE IF ~txs.ok THEN [batch |-> withBlock, err |-> "unclassified"]
        ELSE With([withBlock EXCEPT !.transactions = @ \o txs.txs],
                  LAMBDA appended :
                      UpdateLoopBlockFirst(hs, appended, Tail(newHeaders), fault))

RECURSIVE UpdateLoopOrdered(_, _, _, _)
\* updateEspressoBatch's loop, were a header stamped before the window or
\* before its predecessor an error
UpdateLoopOrdered(hs, b, newHeaders, fault) ==
    IF Len(newHeaders) = 0 THEN [batch |-> b, err |-> "nil"]
    ELSE
    LET header == Head(newHeaders)
        blocks == b.jst.blocks
        blockNum == b.jst.from + Len(blocks)
        prev == IF Len(blocks) # 0 THEN Some(blocks[Len(blocks)].header) ELSE b.jst.prev
        txs == FetchTransactionsInBlock(hs, blockNum, header)
    IN  IF header.timestamp >= b.windowEnd THEN [batch |-> b, err |-> "critical"]
        ELSE IF header.timestamp < b.windowStart THEN [batch |-> b, err |-> "critical"]
        ELSE IF IsSome(prev) /\ header.timestamp < Get(prev).timestamp
             THEN [batch |-> b, err |-> "critical"]
        ELSE IF fault.at = "txs" THEN [batch |-> b, err |-> fault.class]
        ELSE IF fault.at = "txs2" /\ Len(blocks) # 0
             THEN [batch |-> b, err |-> fault.class]
        ELSE IF ~txs.ok THEN [batch |-> b, err |-> "unclassified"]
        ELSE With([b EXCEPT !.jst.blocks = Append(@, Block(header, TRUE)),
                            !.transactions = @ \o txs.txs],
                  LAMBDA appended : UpdateLoopOrdered(hs, appended, Tail(newHeaders), fault))

RECURSIVE UpdateLoop(_, _, _, _)
\* the loop of updateEspressoBatch over newHeaders
UpdateLoop(hs, b, newHeaders, fault) ==
    IF Len(newHeaders) = 0 THEN [batch |-> b, err |-> "nil"]
    ELSE
    LET header == Head(newHeaders)
        blockNum == b.jst.from + Len(b.jst.blocks)
        txs == FetchTransactionsInBlock(hs, blockNum, header)
    IN  IF header.timestamp >= b.windowEnd THEN [batch |-> b, err |-> "critical"]
        ELSE IF fault.at = "txs" THEN [batch |-> b, err |-> fault.class]
        ELSE IF fault.at = "txs2" /\ Len(b.jst.blocks) # 0
             THEN [batch |-> b, err |-> fault.class]
        ELSE IF ~txs.ok THEN [batch |-> b, err |-> "unclassified"]
        ELSE With([b EXCEPT !.jst.blocks = Append(@, Block(header, TRUE)),
                            !.transactions = @ \o txs.txs],
                  LAMBDA appended : UpdateLoop(hs, appended, Tail(newHeaders), fault))

\* Sequencer.updateEspressoBatch: [batch, err]
updateEspressoBatch(hs, b, newHeaders, end, fault) ==
    With(UpdateLoop(hs, b, newHeaders, fault),
         LAMBDA r : IF r.err # "nil" THEN r
                    ELSE [batch |-> [r.batch EXCEPT !.jst.next = end], err |-> "nil"])

\* complete, were no window ever seen as closed
completeNever(b) == FALSE

\* InProgressBatch.complete
complete(b) == IsSome(b.jst.next)

\* Sequencer.startBuildingEspressoBatch: [espressoBatch, err]; espressoBatch
\* is the field of the Sequencer afterwards.
startBuildingEspressoBatch(hs, old, l2Head, fault) ==
    LET windowStart == l2Head.time + BlockTime
        windowEnd == windowStart + BlockTime
        fresh(blocks) ==
            [onto |-> l2Head, windowStart |-> windowStart, windowEnd |-> windowEnd,
             jst |-> [from |-> blocks.from, prev |-> blocks.prev,
                      blocks |-> <<>>, next |-> None],
             transactions |-> <<>>]
    IN  IF fault.at = "headers" THEN [espressoBatch |-> old, err |-> fault.class]
        ELSE With(AnsweredWindow(FetchHeadersForWindow(hs, windowStart, windowEnd), fault),
                  LAMBDA blocks :
                      With(updateEspressoBatch(hs, fresh(blocks), blocks.window,
                                               blocks.next, fault),
                           LAMBDA r : [espressoBatch |-> Some(r.batch), err |-> r.err]))

\* Whether the proofs of a justification validate the transactions: every
\* proof is there and the transactions are those of the blocks, in order.
RECURSIVE TxsOfBlocks(_)
TxsOfBlocks(blocks) ==
    IF Len(blocks) = 0 THEN <<>>
    ELSE TxsInBlock(Head(blocks).header) \o TxsOfBlocks(Tail(blocks))
ProofsValidate(blocks, txs) ==
    /\ \A i \in 1..Len(blocks) : blocks[i].proof
    /\ txs = TxsOfBlocks(blocks)

\* AttributesBuilder.PreparePayloadAttributes and the engine's block: the
\* payload built on l2Parent with the given epoch and justification.
PreparePayloadAttributes(l2Parent, epoch, jst, txs) ==
    [parent |-> l2Parent, timestamp |-> l2Parent.time + BlockTime,
     epoch_num |-> epoch.number, epoch_time |-> epoch.time,
     txs |-> txs, jst |-> jst]

\* What the engine takes from its transaction pool when it may: the test
\* double adds up to 19 mock transactions, for which one stands here.
MockPoolTxs == <<0>>

\* the engine's payload, were it to sequence from its pool whatever the
\* attributes say
makePayloadFromPool(attrs, noTxPool) ==
    [attrs EXCEPT !.txs = @ \o MockPoolTxs]

\* FakeEngineControl.makePayload: the payload the engine builds from the
\* attributes; txs are the transactions after the deposits.
makePayload(attrs, noTxPool) ==
    IF noTxPool THEN attrs ELSE [attrs EXCEPT !.txs = @ \o MockPoolTxs]

\* The block reference of a payload (derive.PayloadToBlockRef).
L2RefOfPayload(p) ==
    L2Ref(p.parent.number + 1, p.timestamp, p.epoch_num, p.parent.fork)

\* confirmed is the unsafe head the engine takes in ConfirmPayload, if it
\* confirms a payload.
NoSeal(b, e) == [batch |-> Some(b), payload |-> None, confirmed |-> None, err |-> e]

\* sealEspressoBatch, were it to return the payload of a build that
\* ConfirmPayload failed to complete
sealEspressoBatchUnconfirmed(l1, b0, fault) ==
    LET suggestedL1Origin == FindL1OriginByNumber(l1, Get(b0.jst.next).l1_head)
        l1OriginNumber == EspressoL1OriginFromRef(b0.onto, suggestedL1Origin)
        l1Origin == IF suggestedL1Origin.number # l1OriginNumber
                    THEN FindL1OriginByNumber(l1, l1OriginNumber)
                    ELSE suggestedL1Origin
        payload == PreparePayloadAttributes(b0.onto, l1Origin, b0.jst, b0.transactions)
    IN  IF fault.at = "origin" THEN NoSeal(b0, fault.class)
        ELSE IF ~suggestedL1Origin.ok \/ ~l1Origin.ok THEN NoSeal(b0, "temporary")
        ELSE IF fault.at \in {"attrs", "start"} THEN NoSeal(b0, fault.class)
        ELSE [batch |-> None, payload |-> Some(payload),
              confirmed |-> IF fault.at = "confirm" THEN None
                            ELSE Some(L2RefOfPayload(payload)),
              err |-> "nil"]

\* Sequencer.sealEspressoBatch: [batch, payload, err]; batch is the
\* espressoBatch field afterwards.
sealEspressoBatch(l1, b0, fault) ==
    LET adjusted(suggestedL1Origin) ==
            With(EspressoL1OriginFromRef(b0.onto, suggestedL1Origin),
                 LAMBDA l1OriginNumber :
                     IF suggestedL1Origin.number # l1OriginNumber
                     THEN FindL1OriginByNumber(l1, l1OriginNumber)
                     ELSE suggestedL1Origin)
        emptied(l1Origin) ==
            IF EspressoBatchMustBeEmpty(l1Origin, b0.windowStart)
            THEN [b0 EXCEPT !.transactions = <<>>,
                            !.jst.blocks = [i \in 1..Len(@) |-> [@[i] EXCEPT !.proof = FALSE]]]
            ELSE b0
        submit(l1Origin, b) ==
            IF fault.at \in {"attrs", "start", "confirm"} THEN NoSeal(b, fault.class)
            ELSE With(makePayload(PreparePayloadAttributes(b.onto, l1Origin, b.jst,
                                                           b.transactions), TRUE),
                      LAMBDA payload :
                          [batch |-> None, payload |-> Some(payload),
                           confirmed |-> Some(L2RefOfPayload(payload)), err |-> "nil"])
    IN  IF fault.at = "origin" THEN NoSeal(b0, fault.class)
        ELSE With(FindL1OriginByNumber(l1, Get(b0.jst.next).l1_head),
                  LAMBDA suggestedL1Origin :
                      IF ~suggestedL1Origin.ok THEN NoSeal(b0, "temporary")
                      ELSE With(adjusted(suggestedL1Origin),
                                LAMBDA l1Origin :
                                    IF ~l1Origin.ok THEN NoSeal(b0, "temporary")
                                    ELSE With(emptied(l1Origin),
                                              LAMBDA b : submit(l1Origin, b))))

\* tryToSealEspressoBatch's polling, were it to go on after the window is
\* closed
extendEspressoBatchAlways(hs, b0, fault) ==
    LET blocks == FetchRemainingHeadersForWindow(hs, b0.jst.from + Len(b0.jst.blocks),
                                                 b0.windowEnd)
    IN  IF fault.at = "headers" THEN [batch |-> b0, err |-> fault.class]
        ELSE updateEspressoBatch(hs, b0, blocks.window, blocks.next, fault)

\* Sequencer.tryToSealEspressoBatch, its polling for the rest of the window:
\* [batch, err]
extendEspressoBatch(hs, b0, fault) ==
    IF complete(b0) THEN [batch |-> b0, err |-> "nil"]
    ELSE IF fault.at = "headers" THEN [batch |-> b0, err |-> fault.class]
    ELSE With(AnsweredWindow(FetchRemainingHeadersForWindow(hs,
                                 b0.jst.from + Len(b0.jst.blocks), b0.windowEnd), fault),
              LAMBDA blocks :
                  updateEspressoBatch(hs, b0, blocks.window, blocks.next, fault))

\* Sequencer.tryToSealEspressoBatch after the polling gave u
sealIfComplete(l1, u, fault) ==
    IF u.err # "nil" THEN NoSeal(u.batch, u.err)
    ELSE IF complete(u.batch) THEN sealEspressoBatch(l1, u.batch, fault)
    ELSE NoSeal(u.batch, "nil")

\* Sequencer.tryToSealEspressoBatch: [batch, payload, err]
tryToSealEspressoBatch(hs, l1, b0, fault) ==
    With(extendEspressoBatch(hs, b0, fault), LAMBDA u : sealIfComplete(l1, u, fault))

\* handlePossibleEngineError, were it to return reset errors to the caller
handlePossibleEngineErrorBubble(class, nextAction) ==
    IF class \in {"critical", "reset"}
    THEN [ret |-> class, nextAction |-> nextAction, reset |-> FALSE]
    ELSE [ret |-> "nil", nextAction |-> 1, reset |-> FALSE]

\* handlePossibleEngineError, were it to treat a reset error as any other
handlePossibleEngineErrorNoReset(class, nextAction) ==
    IF class = "critical" THEN [ret |-> "critical", nextAction |-> nextAction, reset |-> FALSE]
    ELSE [ret |-> "nil", nextAction |-> 1, reset |-> FALSE]

\* Sequencer.handleNonEngineError / handlePossibleEngineError: the error
\* returned to the caller, the nextAction delay and whether the engine is
\* asked to reset.
handleNonEngineError(class, nextAction) ==
    IF class = "critical" THEN [ret |-> "critical", nextAction |-> nextAction, reset |-> FALSE]
    ELSE [ret |-> "nil", nextAction |-> 1, reset |-> FALSE]
handlePossibleEngineError(class, nextAction) ==
    IF class = "critical" THEN [ret |-> "critical", nextAction |-> nextAction, reset |-> FALSE]
    ELSE IF class = "reset" THEN [ret |-> "nil", nextAction |-> BlockTime, reset |-> TRUE]
    ELSE handleNonEngineError(class, nextAction)

\* err is the class of the error the tick met ("nil": none), confirmed the
\* head the engine took.
Tick(eb, na, payload, ret, reset, err, confirmed) ==
    [espressoBatch |-> eb, nextAction |-> na, payload |-> payload, ret |-> ret,
     reset |-> reset, err |-> err, confirmed |-> confirmed]

\* buildEspressoBatch, were a failed seal to drop the batch
afterSealDropOnError(s, seal) ==
    IF seal.err # "nil" THEN
        LET h == handlePossibleEngineError(seal.err, s.nextAction)
        IN  Tick(None, h.nextAction, None, h.ret, h.reset, seal.err, seal.confirmed)
    ELSE IF ~IsSome(seal.payload)
         THEN Tick(seal.batch, 1, None, "nil", FALSE, "nil", seal.confirmed)
    ELSE Tick(seal.batch, s.nextAction, seal.payload, "nil", FALSE, "nil",
              seal.confirmed)

\* buildEspressoBatch, were it to set no delay when the batch is not sealed
afterSealNoWait(s, seal) ==
    IF seal.err # "nil" THEN
        LET h == handlePossibleEngineError(seal.err, s.nextAction)
        IN  Tick(seal.batch, h.nextAction, None, h.ret, h.reset, seal.err,
                 seal.confirmed)
    ELSE Tick(seal.batch, s.nextAction, seal.payload, "nil", FALSE, "nil",
              seal.confirmed)

\* Sequencer.buildEspressoBatch after tryToSealEspressoBatch returned seal
afterSeal(s, seal) ==
    IF seal.err # "nil" THEN
        LET h == handlePossibleEngineError(seal.err, s.nextAction)
        IN  Tick(seal.batch, h.nextAction, None, h.ret, h.reset, seal.err,
                 seal.confirmed)
    ELSE IF ~IsSome(seal.payload)
         THEN Tick(seal.batch, 1, None, "nil", FALSE, "nil", seal.confirmed)
    ELSE Tick(seal.batch, s.nextAction, seal.payload, "nil", FALSE, "nil",
              seal.confirmed)

\* Sequencer.buildEspressoBatch once there is a batch or starting one failed
\* (st: the espressoBatch field and the error of startBuildingEspressoBatch)
afterStart(s, w, st, fault) ==
    IF st.err # "nil" THEN
        LET h == handleNonEngineError(st.err, s.nextAction)
        IN  Tick(st.espressoBatch, h.nextAction, None, h.ret, h.reset, st.err, None)
    ELSE With(tryToSealEspressoBatch(w.hs, w.l1, Get(st.espressoBatch), fault),
              LAMBDA seal : afterSeal(s, seal))

\* buildEspressoBatch, were it to go on with the batch it holds
buildEspressoBatchNoReorgCheck(s, head, w, fault) ==
    With(IF IsSome(s.espressoBatch) THEN [espressoBatch |-> s.espressoBatch, err |-> "nil"]
         ELSE startBuildingEspressoBatch(w.hs, s.espressoBatch, head, fault),
         LAMBDA st : afterStart(s, w, st, fault))

\* Sequencer.buildEspressoBatch on the sequencer s, the unsafe head and the
\* world w: the fields it leaves and what it returns.
buildEspressoBatch(s, head, w, fault) ==
    LET afterReorg == IF IsSome(s.espressoBatch) /\ Get(s.espressoBatch).onto # head
                      THEN None ELSE s.espressoBatch
    IN  With(IF IsSome(afterReorg) THEN [espressoBatch |-> afterReorg, err |-> "nil"]
             ELSE startBuildingEspressoBatch(w.hs, afterReorg, head, fault),
             LAMBDA st : afterStart(s, w, st, fault))

\* planNextEspressoSequencerAction, were a back-off to hold whatever the head
planNextEspressoSequencerActionNoReorg(s, head) ==
    IF s.nextAction > 0 THEN s.nextAction ELSE 0

\* Sequencer.planNextEspressoSequencerAction: the delay in seconds; the
\* nextAction field of s is d.nextAction.Sub(now).
planNextEspressoSequencerAction(s, head) ==
    LET delay == s.nextAction
        reorg == IsSome(s.espressoBatch) /\ Get(s.espressoBatch).onto # head
    IN  IF delay > 0 /\ ~reorg THEN delay ELSE 0

\* PlanNextSequencerAction, were it to look at the mode first
PlanNextSequencerActionModeFirst(s, head, safe) ==
    IF s.mode # "Espresso" THEN 0
    ELSE IF safe THEN BlockTime
    ELSE planNextEspressoSequencerAction(s, head)

\* Sequencer.PlanNextSequencerAction; safe tells whether the engine is
\* building a safe block.
PlanNextSequencerAction(s, head, safe) ==
    IF safe THEN BlockTime
    ELSE IF s.mode = "Espresso" THEN planNextEspressoSequencerAction(s, head)
    ELSE 0

----------------------------------------------------------------------------
(* Spec: the driver, its engine and its environment *)

\* L1 chains the driver runs against: one whose block 1 is newer than the
\* first window, one whose first blocks are older than the drift allows.
DrvL1Chains ==
    {<<SafeTime - 2, SafeTime + 3, SafeTime + 5>>,
     <<SafeTime - MaxSequencerDrift - 1, SafeTime - MaxSequencerDrift + 1, SafeTime + 4>>}

\* sysCfg.EspressoL1ConfDepth of the node that replays the payloads
DrvConfDepth == 0

GenesisL2 == L2Ref(0, SafeTime, 0, 0)

NoOut == [payload |-> None, ret |-> "nil", reset |-> FALSE, verdict |-> "none",
          err |-> "nil"]
\* out tells what the last step returned if it was a tick of the driver; an
\* error returned to the caller stays, for the caller has stopped.
Consumed ==
    out' = [NoOut EXCEPT !.ret = out.ret,
                         !.err = IF out.ret = "nil" THEN "nil" ELSE out.err]

IdleEng == [unsafe |-> GenesisL2]
IdleSeq == [mode |-> "Unknown", espressoBatch |-> None, nextAction |-> 0]

\* What the derivation pipeline is given when it replays a payload: the
\* commitments of every block the query service has are authenticated on L1.
ValidatorEnv(w) ==
    [hs |-> w.hs, published |-> Len(w.hs), l1 |-> w.l1, confDepth |-> w.confDepth]
BatchOfPayload(p) ==
    [epoch_num |-> p.epoch_num, timestamp |-> p.timestamp, txs |-> p.txs,
     nmt_valid |-> ProofsValidate(p.jst.blocks, p.txs), jst |-> Some(p.jst)]
Init ==
    /\ world \in [hs : {<<>>}, l1 : DrvL1Chains, confDepth : {DrvConfDepth}]
    /\ eng = IdleEng
    /\ seq = IdleSeq
    /\ out = NoOut
    /\ env = [kind |-> "none"]
    /\ InitCheckVars

\* The state after a call of buildEspressoBatch that gave t: the fields of
\* the Sequencer, the engine's unsafe head, and what the caller and the
\* validator get.
Ticked(t) ==
    /\ seq' = [seq EXCEPT !.espressoBatch = t.espressoBatch,
                          !.nextAction = t.nextAction]
    /\ eng' = IF IsSome(t.confirmed)
              THEN [eng EXCEPT !.unsafe = Get(t.confirmed)]
              ELSE eng
    /\ out' = [payload |-> t.payload, ret |-> t.ret, reset |-> t.reset,
               err |-> t.err,
               verdict |-> IF IsSome(t.payload)
                           THEN CheckBatchEspresso(ValidatorEnv(world),
                                    Get(t.payload).parent,
                                    BatchOfPayload(Get(t.payload)))
                           ELSE "none"]

\* Sequencer.RunNextSequencerAction when the engine is not building a safe
\* block, meeting the given fault.
RunWith(fault) ==
    IF seq.mode = "Unknown" THEN
        \* detectMode
        IF fault.at = "mode"
        THEN LET h == handleNonEngineError(fault.class, seq.nextAction)
             IN  /\ seq' = [seq EXCEPT !.nextAction = h.nextAction]
                 /\ out' = [NoOut EXCEPT !.ret = h.ret, !.err = fault.class]
                 /\ eng' = eng
        ELSE /\ seq' = [seq EXCEPT !.mode = "Espresso"]
             /\ out' = NoOut
             /\ eng' = eng
    ELSE
        \E t \in {buildEspressoBatch(seq, eng.unsafe, world, fault)} : Ticked(t)

\* The scheduler calls Sequencer.RunNextSequencerAction.
RunNextSequencerAction ==
    /\ out.ret = "nil"
    /\ eng.unsafe.number < MaxL2Blocks
    /\ \/ \* the engine is building a safe block: leave it alone for a block time
          /\ seq' = [seq EXCEPT !.nextAction = BlockTime]
          /\ out' = NoOut
          /\ eng' = eng
       \/ \E fault \in Faults : RunWith(fault)
    /\ UNCHANGED <<world, checkVars>>

\* The external sequencer produces a block, and the query service has it.
NextTimestamps(hs) ==
    IF Len(hs) = 0 THEN {SafeTime + 1, SafeTime + 2}
    ELSE {Last(hs).timestamp - 1, Last(hs).timestamp + 1, Last(hs).timestamp + 2}
NewEspressoBlock ==
    /\ Len(world.hs) < DrvHsLen
    /\ \E ts \in NextTimestamps(world.hs), l1head \in 0..(Len(world.l1) - 1) :
          /\ world.l1[l1head + 1] <= ts
          /\ world' = [world EXCEPT
                          !.hs = Append(@, Header(Len(@), ts, l1head, Len(@)))]
    /\ Consumed
    /\ UNCHANGED <<eng, seq, checkVars>>

\* The unsafe head is replaced by another block of the same height.
Reorg ==
    /\ eng.unsafe.number > 0
    /\ eng.unsafe.fork < MaxForks
    /\ eng' = [eng EXCEPT !.unsafe.fork = @ + 1]
    /\ Consumed
    /\ UNCHANGED <<world, seq, checkVars>>

\* A second passes.
ClockAdvance ==
    /\ seq.nextAction > 0
    /\ seq' = [seq EXCEPT !.nextAction = @ - 1]
    /\ Consumed
    /\ UNCHANGED <<world, eng, checkVars>>

Next ==
    \/ RunNextSequencerAction
    \/ NewEspressoBlock
    \/ Reorg
    \/ ClockAdvance

Spec == Init /\ [][Next]_vars

\* A call of RunNextSequencerAction in which every dependency answers
SuccessfulTick ==
    /\ out.ret = "nil"
    /\ eng.unsafe.number < MaxL2Blocks
    /\ RunWith(NoFault)
    /\ UNCHANGED <<world, checkVars>>

\* The event loop of the driver keeps calling RunNextSequencerAction, and no
\* dependency fails for ever.
SpecLive == Init /\ [][Next]_vars /\ WF_vars(SuccessfulTick)

----------------------------------------------------------------------------
(* SpecPlan: the driver run by a scheduler that awaits the planned delay *)

\* The scheduler calls RunNextSequencerAction once the delay that
\* PlanNextSequencerAction returns has passed.
ScheduledAction ==
    /\ \E safe \in BOOLEAN : PlanNextSequencerAction(seq, eng.unsafe, safe) = 0
    /\ RunNextSequencerAction

NextPlan ==
    \/ ScheduledAction
    \/ NewEspressoBlock
    \/ Reorg
    \/ ClockAdvance

SpecPlan == Init /\ [][NextPlan]_vars

----------------------------------------------------------------------------
(* SpecBusy: the driver beside an engine that also builds safe blocks *)

\* EngineControl.BuildingPayload, what the tick is answered: env.buildingID
\* (0: no build job) and env.safe.
BuildingStates ==
    {[kind |-> "engine", buildingID |-> 0, safe |-> FALSE],
     [kind |-> "engine", buildingID |-> 1, safe |-> FALSE],
     [kind |-> "engine", buildingID |-> 1, safe |-> TRUE]}

InitBusy ==
    /\ world \in [hs : {<<>>}, l1 : DrvL1Chains, confDepth : {DrvConfDepth}]
    /\ eng = IdleEng
    /\ seq = IdleSeq
    /\ out = NoOut
    /\ env \in BuildingStates
    /\ InitCheckVars

\* Sequencer.RunNextSequencerAction, the engine's build job being env.
RunNextSequencerActionBuilding ==
    /\ out.ret = "nil"
    /\ eng.unsafe.number < MaxL2Blocks
    /\ IF env.buildingID # 0 /\ env.safe
       THEN /\ seq' = [seq EXCEPT !.nextAction = BlockTime]
            /\ out' = NoOut
            /\ eng' = eng
       ELSE \E fault \in Faults : RunWith(fault)
    /\ UNCHANGED <<world, checkVars>>

\* The derivation pipeline starts a build job, or the job ends.
EngineBuilds ==
    /\ \E b \in BuildingStates : b # env /\ env' = b
    /\ Consumed
    /\ UNCHANGED <<batch, res, world, eng, seq>>

NextBusy ==
    \/ RunNextSequencerActionBuilding
    \/ NewEspressoBlock
    \/ Reorg
    \/ ClockAdvance
    \/ EngineBuilds

SpecBusy == InitBusy /\ [][NextBusy]_vars

----------------------------------------------------------------------------
(* SpecWindow: the driver against a query service that may misplace the    *)
(* block that closes a window                                               *)

WindowFault == [at |-> "window", class |-> "none"]

\* The scheduler calls Sequencer.RunNextSequencerAction; the query service
\* answers as it should or misplaces the closing block.
RunNextSequencerActionWindow ==
    /\ out.ret = "nil"
    /\ eng.unsafe.number < MaxL2Blocks
    /\ \E fault \in {NoFault, WindowFault} : RunWith(fault)
    /\ UNCHANGED <<world, checkVars>>

NextWindow ==
    \/ RunNextSequencerActionWindow
    \/ NewEspressoBlock
    \/ Reorg
    \/ ClockAdvance

SpecWindow == Init /\ [][NextWindow]_vars

----------------------------------------------------------------------------
(* SpecOrder: the driver's ticks against a query service whose blocks are  *)
(* stamped in any order                                                     *)

\* Espresso chains of three or four blocks, each stamped anywhere from just
\* before the first window to after its end, all on L1 block 1.
OrderChains ==
    UNION {[1..n -> (SafeTime + 1)..(SafeTime + 2 * BlockTime + 1)] : n \in (HsLen - 1)..HsLen}

InitOrder ==
    /\ \E ts \in OrderChains :
          world = [hs |-> [i \in 1..Len(ts) |-> Header(i - 1, ts[i], 1, i - 1)],
                   l1 |-> <<SafeTime - 2, SafeTime>>, confDepth |-> DrvConfDepth]
    /\ eng = IdleEng
    /\ seq = IdleSeq
    /\ out = NoOut
    /\ env = [kind |-> "none"]
    /\ InitCheckVars

SpecOrder == InitOrder /\ [][RunNextSequencerAction]_vars

----------------------------------------------------------------------------
(* SpecSeal: the driver's ticks against a query service that already holds  *)
(* its blocks, on L1 chains whose blocks are recent or older than the drift *)
(* allows                                                                   *)

\* L1 chains of three blocks: all recent; block 0 too old for the first
\* window; blocks 0 and 1 too old for it.
SealL1Chains ==
    {<<SafeTime - 2, SafeTime, SafeTime + 1>>,
     <<SafeTime - MaxSequencerDrift - 1, SafeTime - 2, SafeTime + 1>>,
     <<SafeTime - MaxSequencerDrift - 1, SafeTime - MaxSequencerDrift + 1, SafeTime + 1>>}

\* Espresso chains of two or three blocks with increasing timestamps around
\* the first two windows, each block suggesting an L1 block it can have seen.
SealChains(l1) ==
    {hs \in UNION {[1..n -> [ts : (SafeTime + 1)..(SafeTime + 3 * BlockTime),
                             head : 0..(Len(l1) - 1)]] : n \in 2..DrvHsLen} :
        /\ \A i \in 1..Len(hs) : l1[hs[i].head + 1] <= hs[i].ts
        /\ \A i \in 1..(Len(hs) - 1) : hs[i].ts < hs[i + 1].ts}

InitSeal ==
    /\ \E l1 \in SealL1Chains : \E c \in SealChains(l1) :
          world = [hs |-> [i \in 1..Len(c) |-> Header(i - 1, c[i].ts, c[i].head, i - 1)],
                   l1 |-> l1, confDepth |-> DrvConfDepth]
    /\ eng = IdleEng
    /\ seq = IdleSeq
    /\ out = NoOut
    /\ env = [kind |-> "none"]
    /\ InitCheckVars

SpecSeal == InitSeal /\ [][RunNextSequencerAction]_vars

----------------------------------------------------------------------------
(* SpecService: the implementations of QueryService.FetchTransactionsInBlock *)

L2ChainID == 901

\* The NamespaceProof the query service answers with for the block of header
\* h and a namespace: one Merkle path per transaction of the namespace, the
\* first node of a path holding the transaction.  how tells what is wrong
\* with the answer, if anything.
NamespaceProof(h, namespace, how) ==
    [i \in 1..Len(TxsInBlock(h)) |->
        IF how = "emptypath" THEN <<>>
        ELSE IF how = "noleaf" THEN <<[elem |-> None]>>
        ELSE <<[elem |-> Some([vm |-> IF how = "wrongvm" THEN namespace + 1
                                     ELSE namespace,
                               payload |-> TxsInBlock(h)[i]])]>>]

\* NamespaceResponse.Validate
Validate(proofs, header, namespace) ==
    IF \E i \in 1..Len(proofs) :
           \/ Len(proofs[i]) = 0
           \/ ~IsSome(proofs[i][1].elem)
           \/ Get(proofs[i][1].elem).vm # namespace
    THEN [ok |-> FALSE, txs |-> <<>>]
    ELSE [ok |-> TRUE,
          txs |-> [i \in 1..Len(proofs) |-> Get(proofs[i][1].elem).payload]]

\* Client.FetchTransactionsInBlock against a query service svc
ClientFetchTransactionsInBlock(svc, block, header, namespace) ==
    IF block >= Len(svc.hs) THEN [ok |-> FALSE, txs |-> <<>>]
    ELSE Validate(NamespaceProof(svc.hs[block + 1], namespace, svc.how), header, namespace)

\* A query service with two blocks, a block number, and the header the
\* caller expects there: one of the service's or a foreign one.
ServiceEnvs ==
    {[kind |-> "service",
      hs |-> <<Header(0, t0, 0, r0), Header(1, t1, 0, r0 + 1)>>,
      how |-> how, block |-> block, header |-> Header(hh, th, 0, rh)] :
        t0 \in {SafeTime + 1, SafeTime + 2}, t1 \in {SafeTime + 1, SafeTime + 2},
        r0 \in 0..1, how \in {"sound", "emptypath", "noleaf", "wrongvm"},
        block \in 0..2, hh \in 0..1, th \in {SafeTime + 1, SafeTime + 2}, rh \in 0..2}

InitService ==
    /\ env \in ServiceEnvs
    /\ InitCheckVars
    /\ InitSeqVars

\* The driver's client fetches the transactions of a block.
FetchFromClient ==
    /\ res.op = "none"
    /\ LET r == ClientFetchTransactionsInBlock(env, env.block, env.header, L2ChainID)
       IN  res' = [op |-> "Client", ok |-> r.ok, txs |-> r.txs]
    /\ UNCHANGED <<env, batch, seqVars>>

\* The test's query service answers the same request.
FetchFromTestSequencer ==
    /\ res.op = "none"
    /\ env.how = "sound"
    /\ LET r == FetchTransactionsInBlock(env.hs, env.block, env.header)
       IN  res' = [op |-> "TestSequencer", ok |-> r.ok, txs |-> r.txs]
    /\ UNCHANGED <<env, batch, seqVars>>

NextService == FetchFromClient \/ FetchFromTestSequencer

SpecService == InitService /\ [][NextService]_vars

----------------------------------------------------------------------------
(* SpecL1Info: the justification in the calldata of the L1-info deposit     *)
(* transaction (L1InfoDeposit, L1BlockInfoFromBytes).  Byte strings are     *)
(* sequences over 0..255.                                                   *)

\* n as exactly w bytes, most significant first (binary.BigEndian and the
\* 32-byte words of solabi); the integers of the model are below 2^31
BigEndian(n, w) ==
    [i \in 1..w |-> IF w - i > 3 THEN 0 ELSE (n \div 256 ^ (w - i)) % 256]

RECURSIVE Significant(_)
Significant(b) == IF Len(b) = 0 THEN 0 ELSE 256 * Significant(SubSeq(b, 1, Len(b) - 1)) + b[Len(b)]

\* The number a byte string is, most significant byte first
FromBigEndian(b) ==
    IF \A i \in 1..Len(b) : b[i] = 0 THEN 0
    ELSE Significant(SubSeq(b, CHOOSE i \in 1..Len(b) :
                                   b[i] # 0 /\ \A k \in 1..(i - 1) : b[k] = 0, Len(b)))

\* n in the fewest bytes, most significant first; zero is the empty string
RECURSIVE MinimalBytes(_)
MinimalBytes(n) ==
    IF n = 0 THEN <<>> ELSE Append(MinimalBytes(n \div 256), n % 256)

RECURSIVE Concat(_)
Concat(ss) == IF Len(ss) = 0 THEN <<>> ELSE ss[1] \o Concat(Tail(ss))

\* RLP values: a byte string or a list of values
RlpString(b) == [kind |-> "string", val |-> b]
RlpList(xs) == [kind |-> "list", val |-> xs]
RlpFail == [ok |-> FALSE]

\* The head of an RLP value with a payload of n bytes
RlpHead(base, n) ==
    IF n < 56 THEN <<base + n>>
    ELSE With(MinimalBytes(n), LAMBDA l : <<base + 55 + Len(l)>> \o l)

\* rlp.EncodeToBytes of a value
RECURSIVE RlpEncode(_)
RlpEncode(x) ==
    IF x.kind = "string"
    THEN IF Len(x.val) = 1 /\ x.val[1] < 128 THEN x.val
         ELSE RlpHead(128, Len(x.val)) \o x.val
    ELSE With(Concat([i \in 1..Len(x.val) |-> RlpEncode(x.val[i])]),
              LAMBDA p : RlpHead(192, Len(p)) \o p)

\* The frame of the first RLP value of b: its kind, where its payload
\* starts and how long it is.  Non-canonical sizes are errors.
RlpFrame(b) ==
    IF Len(b) = 0 THEN RlpFail
    ELSE With(b[1], LAMBDA t :
        IF t < 128 THEN [ok |-> TRUE, kind |-> "string", start |-> 0, size |-> 1]
        ELSE IF t < 184 THEN
            IF t = 129 /\ Len(b) >= 2 /\ b[2] < 128 THEN RlpFail
            ELSE [ok |-> TRUE, kind |-> "string", start |-> 1, size |-> t - 128]
        ELSE IF t < 192 \/ t >= 248 THEN
            With(IF t < 192 THEN t - 183 ELSE t - 247, LAMBDA ll :
                IF Len(b) < 1 + ll \/ b[2] = 0 \/ ll > 3 THEN RlpFail
                ELSE With(FromBigEndian(SubSeq(b, 2, 1 + ll)), LAMBDA n :
                    IF n < 56 THEN RlpFail
                    ELSE [ok |-> TRUE, kind |-> IF t < 192 THEN "string" ELSE "list",
                          start |-> 1 + ll, size |-> n]))
        ELSE [ok |-> TRUE, kind |-> "list", start |-> 1, size |-> t - 192])

\* The first RLP value of b and the bytes after it; the values of a payload
RECURSIVE RlpSplit(_)
RECURSIVE RlpItems(_)
RlpSplit(b) ==
    With(RlpFrame(b), LAMBDA f :
        IF ~f.ok THEN RlpFail
        ELSE IF Len(b) < f.start + f.size THEN RlpFail
        ELSE With(SubSeq(b, f.start + 1, f.start + f.size), LAMBDA p :
            With(SubSeq(b, f.start + f.size + 1, Len(b)), LAMBDA rest :
                IF f.kind = "string"
                THEN [ok |-> TRUE, item |-> RlpString(p), rest |-> rest]
                ELSE With(RlpItems(p), LAMBDA xs :
                    IF ~xs.ok THEN RlpFail
                    ELSE [ok |-> TRUE, item |-> RlpList(xs.items), rest |-> rest]))))

RlpItems(p) ==
    IF Len(p) = 0 THEN [ok |-> TRUE, items |-> <<>>]
    ELSE With(RlpSplit(p), LAMBDA h :
        IF ~h.ok THEN RlpFail
        ELSE With(RlpItems(h.rest), LAMBDA t :
            IF ~t.ok THEN RlpFail
            ELSE [ok |-> TRUE, items |-> <<h.item>> \o t.items]))

\* rlp.DecodeBytes reads exactly one value
RlpDecode(b) ==
    With(RlpSplit(b), LAMBDA s :
        IF s.ok /\ Len(s.rest) = 0 THEN [ok |-> TRUE, item |-> s.item] ELSE RlpFail)

\* uint64: written in the fewest bytes, read without leading zeros
UintOfRlp(x) ==
    IF x.kind = "string" /\ Len(x.val) <= 8 /\ (Len(x.val) = 0 \/ x.val[1] # 0)
    THEN [ok |-> TRUE, val |-> FromBigEndian(x.val)]
    ELSE RlpFail

\* espresso.Header: the height, NmtRoot{Root}, Metadata{Timestamp, L1Head,
\* L1Finalized}; l1_finalized is absent, which its tag writes as an empty list.
RootLen == 48
RlpOfHeader(h) ==
    RlpList(<<RlpString(MinimalBytes(h.height)),
              RlpList(<<RlpString(BigEndian(h.root, RootLen))>>),
              RlpList(<<RlpString(MinimalBytes(h.timestamp)), RlpString(MinimalBytes(h.l1_head)), RlpList(<<>>)>>)>>)

HeaderOfRlp(x) ==
    IF /\ x.kind = "list" /\ Len(x.val) = 3
       /\ x.val[2].kind = "list" /\ Len(x.val[2].val) = 1
       /\ x.val[2].val[1].kind = "string"
       /\ x.val[3].kind = "list" /\ Len(x.val[3].val) = 3
       /\ Len(x.val[3].val[3].val) = 0
       /\ UintOfRlp(x.val[1]).ok
       /\ UintOfRlp(x.val[3].val[1]).ok /\ UintOfRlp(x.val[3].val[2]).ok
    THEN [ok |-> TRUE,
          val |-> Header(UintOfRlp(x.val[1]).val, UintOfRlp(x.val[3].val[1]).val,
                         UintOfRlp(x.val[3].val[2]).val,
                         FromBigEndian(x.val[2].val[1].val))]
    ELSE RlpFail

\* A pointer field that may be nil: nil is written as the empty value of
\* the pointed-to kind, and every empty value is read back as nil.
RlpOfOptionalHeader(o) == IF IsSome(o) THEN RlpOfHeader(Get(o)) ELSE RlpList(<<>>)
OptionalHeaderOfRlp(x) ==
    IF Len(x.val) = 0 THEN [ok |-> TRUE, val |-> None]
    ELSE With(HeaderOfRlp(x), LAMBDA h :
        IF h.ok THEN [ok |-> TRUE, val |-> Some(h.val)] ELSE RlpFail)

\* eth.EspressoBlockJustification{Header, Proof}: the proof is a pointer to
\* a byte string, nil is written as the empty string
RlpOfBlock(b) ==
    RlpList(<<RlpOfHeader(b.header),
              RlpString(IF IsSome(b.proof) THEN Get(b.proof) ELSE <<>>)>>)
BlockOfRlp(x) ==
    IF x.kind = "list" /\ Len(x.val) = 2 /\ x.val[2].kind = "string"
    THEN With(HeaderOfRlp(x.val[1]), LAMBDA h :
            IF h.ok
            THEN [ok |-> TRUE,
                  val |-> [header |-> h.val,
                           proof |-> IF Len(x.val[2].val) = 0 THEN None
                                     ELSE Some(x.val[2].val)]]
            ELSE RlpFail)
    ELSE RlpFail

\* eth.L2BatchJustification{Prev, Blocks, Next}
RlpOfJustification(j) ==
    RlpList(<<RlpOfOptionalHeader(j.prev),
              RlpList([i \in 1..Len(j.blocks) |-> RlpOfBlock(j.blocks[i])]),
              RlpOfOptionalHeader(j.next)>>)

JustificationOfRlp(x) ==
    IF x.kind = "list" /\ Len(x.val) = 3 /\ x.val[2].kind = "list"
    THEN With(OptionalHeaderOfRlp(x.val[1]), LAMBDA p :
         With(OptionalHeaderOfRlp(x.val[3]), LAMBDA n :
         With([i \in 1..Len(x.val[2].val) |-> BlockOfRlp(x.val[2].val[i])], LAMBDA bs :
            IF p.ok /\ n.ok /\ \A i \in 1..Len(bs) : bs[i].ok
            THEN [ok |-> TRUE,
                  val |-> [prev |-> p.val, blocks |-> [i \in 1..Len(bs) |-> bs[i].val],
                           next |-> n.val]]
            ELSE RlpFail)))
    ELSE RlpFail

\* rlp.EncodeToBytes(info.Justification): a nil pointer is the empty list
EncodeJustification(j) ==
    IF IsSome(j) THEN RlpEncode(RlpOfJustification(Get(j))) ELSE <<192>>

\* The two decoders' reading of the justification bytes: the single byte
\* 0xc0 is the nil pointer, anything else goes to
\* rlp.DecodeBytes(rlpBytes, &info.Justification), which never answers nil.
ReadJustification(rlpBytes) ==
    IF Len(rlpBytes) = 1 /\ rlpBytes[1] = 192 THEN [ok |-> TRUE, val |-> None]
    ELSE With(RlpDecode(rlpBytes), LAMBDA r :
        IF ~r.ok THEN RlpFail
        ELSE With(JustificationOfRlp(r.item), LAMBDA j :
            IF j.ok THEN [ok |-> TRUE, val |-> Some(j.val)] ELSE RlpFail))

\* solabi: 32-byte words
WordLen == 32
Word(n) == BigEndian(n, WordLen)
ReadUint64(w) ==
    IF FromBigEndian(SubSeq(w, 1, WordLen - 8)) = 0
    THEN [ok |-> TRUE, val |-> FromBigEndian(SubSeq(w, WordLen - 7, WordLen))]
    ELSE RlpFail
ReadBool(w) ==
    IF FromBigEndian(w) \in {0, 1}
    THEN [ok |-> TRUE, val |-> w[WordLen] = 1]
    ELSE RlpFail
Padding(n) == (WordLen - (n % WordLen)) % WordLen
WriteBytes(b) == Word(Len(b)) \o b \o [i \in 1..Padding(Len(b)) |-> 0]

L1InfoFuncBedrockBytes4 == <<84, 183, 50, 92>>
L1InfoFuncEcotoneBytes4 == <<68, 10, 94, 32>>
L1InfoJustificationOffset == 352

\* L1BlockInfo.marshalBinaryBedrock; fees, hash and batcher are zero
marshalBinaryBedrock(info) ==
    L1InfoFuncBedrockBytes4 \o Word(32) \o Word(info.number) \o Word(info.time)
    \o Word(0) \o Word(0) \o Word(info.sequenceNumber) \o Word(0) \o Word(0) \o Word(0)
    \o Word(IF info.espresso THEN 1 ELSE 0) \o Word(info.confDepth)
    \o Word(L1InfoJustificationOffset) \o WriteBytes(EncodeJustification(info.justification))

\* The i-th 32-byte word after the signature
WordAt(data, i) == SubSeq(data, 4 + WordLen * (i - 1) + 1, 4 + WordLen * i)

L1Info(number, time, sequenceNumber, espresso, confDepth, justification) ==
    [number |-> number, time |-> time, sequenceNumber |-> sequenceNumber,
     espresso |-> espresso, confDepth |-> confDepth, justification |-> justification]

\* L1BlockInfo.unmarshalBinaryBedrock
unmarshalBinaryBedrock(data) ==
    IF Len(data) < 4 + 13 * WordLen THEN RlpFail
    ELSE IF SubSeq(data, 1, 4) # L1InfoFuncBedrockBytes4 THEN RlpFail
    ELSE IF \E i \in {1, 2, 3, 6, 11, 12, 13} : ~ReadUint64(WordAt(data, i)).ok THEN RlpFail
    ELSE IF ReadUint64(WordAt(data, 1)).val # 32 THEN RlpFail
    ELSE IF ~ReadBool(WordAt(data, 10)).ok THEN RlpFail
    ELSE IF ReadUint64(WordAt(data, 12)).val # L1InfoJustificationOffset THEN RlpFail
    ELSE With(ReadUint64(WordAt(data, 13)).val, LAMBDA n :
        IF Len(data) < 4 + 13 * WordLen + n + Padding(n) THEN RlpFail
        ELSE With(ReadJustification(SubSeq(data, 4 + 13 * WordLen + 1, 4 + 13 * WordLen + n)),
                  LAMBDA j :
            IF ~j.ok THEN RlpFail
            ELSE IF Len(data) # 4 + 13 * WordLen + n + Padding(n) THEN RlpFail
            ELSE [ok |-> TRUE,
                  info |-> L1Info(ReadUint64(WordAt(data, 2)).val,
                                  ReadUint64(WordAt(data, 3)).val,
                                  ReadUint64(WordAt(data, 6)).val,
                                  ReadBool(WordAt(data, 10)).val,
                                  ReadUint64(WordAt(data, 11)).val, j.val)]))

\* L1BlockInfo.marshalBinaryEcotone; scalars, fees, hash and batcher are
\* zero, the blob base fee is 1
marshalBinaryEcotone(info) ==
    L1InfoFuncEcotoneBytes4 \o BigEndian(0, 4) \o BigEndian(0, 4)
    \o BigEndian(info.sequenceNumber, 8) \o BigEndian(info.time, 8)
    \o BigEndian(info.number, 8) \o Word(0) \o Word(1) \o Word(0) \o Word(0)
    \o BigEndian(info.confDepth, 8) \o BigEndian(IF info.espresso THEN 1 ELSE 0, 8)
    \o EncodeJustification(info.justification)

EcotoneFixedLen == 4 + 4 + 4 + 8 + 8 + 8 + 4 * WordLen + 8 + 8

\* L1BlockInfo.unmarshalBinaryEcotone
unmarshalBinaryEcotone(data) ==
    IF Len(data) < EcotoneFixedLen THEN RlpFail
    ELSE IF SubSeq(data, 1, 4) # L1InfoFuncEcotoneBytes4 THEN RlpFail
    ELSE IF FromBigEndian(SubSeq(data, 37 + 3 * WordLen, 36 + 3 * WordLen + 12)) # 0 THEN RlpFail
    ELSE With(ReadJustification(SubSeq(data, EcotoneFixedLen + 1, Len(data))), LAMBDA j :
        IF ~j.ok THEN RlpFail
        ELSE [ok |-> TRUE,
              info |-> L1Info(FromBigEndian(SubSeq(data, 29, 36)),
                              FromBigEndian(SubSeq(data, 21, 28)),
                              FromBigEndian(SubSeq(data, 13, 20)),
                              FromBigEndian(SubSeq(data, 45 + 4 * WordLen, 52 + 4 * WordLen)) # 0,
                              FromBigEndian(SubSeq(data, 37 + 4 * WordLen, 44 + 4 * WordLen)),
                              j.val)])

\* rollup.Config: the Ecotone activation time, if any
IsEcotone(cfg, t) == IsSome(cfg.ecotoneTime) /\ t >= Get(cfg.ecotoneTime)
IsEcotoneActivationBlock(cfg, t) ==
    IsEcotone(cfg, t) /\ t >= BlockTime /\ ~IsEcotone(cfg, t - BlockTime)

isEcotoneButNotFirstBlock(rollupCfg, l2BlockTime) ==
    IsEcotone(rollupCfg, l2BlockTime) /\ ~IsEcotoneActivationBlock(rollupCfg, l2BlockTime)

\* L1BlockInfoFromBytes
L1BlockInfoFromBytes(rollupCfg, l2BlockTime, data) ==
    IF isEcotoneButNotFirstBlock(rollupCfg, l2BlockTime) THEN unmarshalBinaryEcotone(data)
    ELSE unmarshalBinaryBedrock(data)

\* L1InfoDeposit: the calldata of the deposit
L1InfoDeposit(rollupCfg, sysCfg, seqNumber, block, l2BlockTime, justification) ==
    With(L1Info(block.number, block.time, seqNumber, sysCfg.espresso, sysCfg.confDepth,
                justification),
         LAMBDA info : IF IsEcotone(rollupCfg, l2BlockTime)
                          /\ ~IsEcotoneActivationBlock(rollupCfg, l2BlockTime)
                       THEN marshalBinaryEcotone(info)
                       ELSE marshalBinaryBedrock(info))

\* The justifications carried: any optional prev and next, up to two
\* blocks, each with no proof, an empty proof (what the test's query service
\* answers) or a proof (the JSON text "{}").
WireProofs == {None, Some(<<>>), Some(<<123, 125>>)}
WireJustifications ==
    {None} \cup
    {Some([prev |-> p, blocks |-> bs, next |-> n]) :
        p \in {None, Some(Header(0, SafeTime - 1, 0, 0))},
        n \in {None, Some(Header(3, SafeTime + BlockTime, 300, 3))},
        bs \in {<<>>}
           \cup {<<[header |-> Header(1, SafeTime, 1, 1), proof |-> q]>> : q \in WireProofs}
           \cup {<<[header |-> Header(1, SafeTime, 1, 1), proof |-> q],
                   [header |-> Header(2, SafeTime + 1, 1, 2), proof |-> r]>> :
                     q \in WireProofs, r \in WireProofs}}

\* Rollup configs without Ecotone, with Ecotone from genesis and with
\* Ecotone from the third block; L2 block times before, at and after it.
L1InfoEnvs ==
    {[kind |-> "l1info", rollupCfg |-> [ecotoneTime |-> et], l2BlockTime |-> t,
      sysCfg |-> [espresso |-> e, confDepth |-> 1],
      block |-> [number |-> 1, time |-> SafeTime], seqNumber |-> 0, jst |-> j] :
        et \in {None, Some(0), Some(2 * BlockTime)}, t \in {0, BlockTime, 2 * BlockTime, 3 * BlockTime},
        e \in BOOLEAN, j \in WireJustifications}

InitL1Info ==
    /\ env \in L1InfoEnvs
    /\ InitCheckVars
    /\ InitSeqVars

\* The sequencer writes the L1-info deposit of the block.
EncodeL1Info ==
    /\ res.op = "none"
    /\ res' = [op |-> "L1InfoDeposit",
               data |-> L1InfoDeposit(env.rollupCfg, env.sysCfg, env.seqNumber, env.block,
                                      env.l2BlockTime, env.jst)]
    /\ UNCHANGED <<env, batch, seqVars>>

\* A reader of the block parses the calldata.
DecodeL1Info ==
    /\ res.op = "L1InfoDeposit"
    /\ \E r \in {L1BlockInfoFromBytes(env.rollupCfg, env.l2BlockTime, res.data)} :
          res' = [op |-> "L1BlockInfoFromBytes", data |-> res.data, ok |-> r.ok,
                  info |-> IF r.ok THEN r.info ELSE L1Info(0, 0, 0, FALSE, 0, None)]
    /\ UNCHANGED <<env, batch, seqVars>>

NextL1Info == EncodeL1Info \/ DecodeL1Info

SpecL1Info == InitL1Info /\ [][NextL1Info]_vars

----------------------------------------------------------------------------
(* Properties of the validator, checked under SpecCheck *)

Checked == res.op = "CheckBatchEspresso" /\ IsSome(batch) /\ IsSome(Get(batch).jst)
TheBatch == Get(batch)
TheJst == Get(TheBatch.jst)
Accepted == Checked /\ res.verdict = "accept"

\* The commitments of the justification are the authenticated ones.
CommsVerified ==
    VerifyCommitments(env.hs, env.published, First(TheJst).height, Comms(TheJst)) = "true"
\* The origin the selector yields for the safe head and the suggestion of the
\* closing header.
ReplayedOrigin ==
    EspressoL1Origin(env.l1, env.confDepth, env.safe, Get(TheJst.next).l1_head)
BookendsSurround ==
    /\ IsSome(TheJst.prev) => Get(TheJst.prev).timestamp < WindowStart0
    /\ Get(TheJst.next).timestamp >= WindowEnd0
BookendChecksPass ==
    /\ checkBookends(WindowStart0, TheJst, "WindowStart")
    /\ checkBookends(WindowEnd0, TheJst, "WindowEnd")

\* C2: an accepted batch carries as epoch_num the number of the L1 block the
\* origin selector returns for (safe head, confirmation depth,
\* justification.next.l1_head); a batch whose epoch_num differs from that
\* block's number is never accepted, and is dropped as soon as the check
\* gets as far as the origin (commitments verified, bookends in place).
C2_AcceptedEpochIsSelectedOrigin ==
    Checked =>
        /\ res.verdict = "accept" =>
               ReplayedOrigin.ok /\ TheBatch.epoch_num = ReplayedOrigin.number
        /\ (CommsVerified /\ BookendChecksPass /\ ReplayedOrigin.ok
               /\ TheBatch.epoch_num # ReplayedOrigin.number) => res.verdict = "drop"
C2_Witness ==
    /\ Accepted /\ env.kind = "origins" /\ env.confDepth > 0
    /\ TheBatch.epoch_num = env.safe.l1origin + 1
    /\ Get(TheJst.next).l1_head > env.safe.l1origin + 1 + env.confDepth
C2_WitnessDrop ==
    /\ Checked /\ res.verdict = "drop" /\ CommsVerified /\ BookendChecksPass
    /\ ReplayedOrigin.ok /\ TheBatch.epoch_num # ReplayedOrigin.number

\* C3: an accepted batch has its bookends around the window
\* [safe.time + BlockTime, safe.time + 2 * BlockTime): prev, if present, is
\* before the window start and next is at or after the window end; a batch
\* with verified commitments whose bookends are otherwise is dropped.
C3_AcceptedBookendsSurroundWindow ==
    Checked =>
        /\ res.verdict = "accept" => BookendsSurround
        /\ (CommsVerified /\ ~BookendsSurround) => res.verdict = "drop"
C3_Witness ==
    /\ Accepted /\ IsSome(TheJst.prev) /\ Len(TheJst.blocks) = MaxBlocks
    /\ Get(TheJst.prev).timestamp < WindowStart0
    /\ Get(TheJst.next).timestamp >= WindowEnd0
C3_WitnessDrop ==
    /\ Checked /\ res.verdict = "drop" /\ CommsVerified
    /\ Len(TheJst.blocks) > 0 /\ Get(TheJst.next).timestamp < WindowEnd0

\* C4: on every Accept, every header listed in blocks has a timestamp before
\* the window end, wherever in blocks it stands.
C4_AcceptedBlocksBeforeWindowEnd ==
    Accepted => \A i \in 1..Len(TheJst.blocks) :
                    TheJst.blocks[i].header.timestamp < WindowEnd0

\* C5: on every Accept the commitments of [prev if present, blocks..., next]
\* are, position by position, the commitments authenticated on L1 at the
\* consecutive heights that start at the height of the first supplied
\* header; when the authenticated commitments can be read, a justification
\* that differs from them in any position is dropped.
AuthenticatedInOrder ==
    /\ First(TheJst).height + Len(Comms(TheJst)) <= env.published
    /\ \A i \in 1..Len(Comms(TheJst)) :
           Comms(TheJst)[i] = Commit(env.hs[First(TheJst).height + i])
C5_AcceptedCommitmentsAreConsecutive ==
    Checked =>
        /\ res.verdict = "accept" => AuthenticatedInOrder
        /\ (First(TheJst).height + Len(Comms(TheJst)) <= env.published
               /\ ~AuthenticatedInOrder) => res.verdict = "drop"
C5_Witness ==
    /\ Accepted /\ IsSome(TheJst.prev) /\ Len(TheJst.blocks) = MaxBlocks
    /\ Get(TheJst.prev).height = 0 /\ Get(TheJst.next).height = MaxBlocks + 1
C5_WitnessSwapped ==
    /\ Checked /\ res.verdict = "drop" /\ IsSome(TheJst.prev) /\ Len(TheJst.blocks) = 0
    /\ Get(TheJst.prev) = env.hs[2] /\ Get(TheJst.next) = env.hs[1]
    /\ Get(TheJst.next).timestamp < WindowStart0
    /\ Get(TheJst.prev).timestamp >= WindowEnd0

\* C6: a batch without prev is accepted only if the first supplied header
\* has height 0 and a timestamp at or after the window start; with verified
\* commitments, a missing prev with any other first header is dropped; and
\* the genesis-window batch (no prev, blocks = the one height-0 header inside
\* the window, next at or after the window end) is accepted.
GenesisWindowBatch ==
    /\ ~IsSome(TheJst.prev) /\ Len(TheJst.blocks) = 1
    /\ TheJst.blocks[1].header = env.hs[1] /\ Get(TheJst.next) = env.hs[2]
    /\ env.hs[1].timestamp >= WindowStart0 /\ env.hs[1].timestamp < WindowEnd0
    /\ env.hs[2].timestamp >= WindowEnd0
    /\ ReplayedOrigin.ok /\ ReplayedOrigin.number = TheBatch.epoch_num
    /\ Len(TheBatch.txs) = 0 /\ TheBatch.nmt_valid
C6_PrevOmittedOnlyAtGenesis ==
    (Checked /\ ~IsSome(TheJst.prev)) =>
        /\ res.verdict = "accept" =>
               First(TheJst).height = 0 /\ First(TheJst).timestamp >= WindowStart0
        /\ (CommsVerified /\ (First(TheJst).height # 0
                                \/ First(TheJst).timestamp < WindowStart0))
               => res.verdict = "drop"
        /\ GenesisWindowBatch => res.verdict = "accept"
C6_Witness == Accepted /\ GenesisWindowBatch
C6_WitnessDrop ==
    /\ Checked /\ ~IsSome(TheJst.prev) /\ res.verdict = "drop" /\ CommsVerified
    /\ First(TheJst).height = 0 /\ First(TheJst).timestamp < WindowStart0

\* C7: an accepted batch whose selected origin satisfies
\* origin.time + MaxSequencerDrift < batch.timestamp has no transactions; a
\* batch with transactions that gets as far as that test is dropped.
C7_AcceptedPastDriftIsEmpty ==
    Checked =>
        /\ (res.verdict = "accept"
               /\ ReplayedOrigin.time + MaxSequencerDrift < TheBatch.timestamp)
              => Len(TheBatch.txs) = 0
        /\ (CommsVerified /\ BookendChecksPass /\ ReplayedOrigin.ok
               /\ ReplayedOrigin.number = TheBatch.epoch_num
               /\ ReplayedOrigin.time + MaxSequencerDrift < TheBatch.timestamp
               /\ Len(TheBatch.txs) # 0) => res.verdict = "drop"
C7_Witness ==
    /\ Accepted /\ ReplayedOrigin.time + MaxSequencerDrift < TheBatch.timestamp
    /\ Len(TheBatch.txs) = 0
C7_WitnessDrop ==
    /\ Checked /\ res.verdict = "drop" /\ CommsVerified /\ BookendChecksPass
    /\ ReplayedOrigin.ok /\ ReplayedOrigin.number = TheBatch.epoch_num
    /\ ReplayedOrigin.time + MaxSequencerDrift < TheBatch.timestamp
    /\ Len(TheBatch.txs) # 0 /\ TheBatch.nmt_valid

\* C8: whatever the parent, the suggestion, the confirmation depth and the
\* L1 chain, a block the origin selector returns has the number of the
\* parent's L1 origin or that number plus one.
C8_OriginIsParentsOrNext ==
    (res.op = "EspressoL1Origin" /\ res.origin.ok) =>
        res.origin.number \in {env.safe.l1origin, env.safe.l1origin + 1}
C8_Witness ==
    /\ res.op = "EspressoL1Origin" /\ res.origin.ok /\ env.confDepth > 0
    /\ res.suggested > env.safe.l1origin + 1 + env.confDepth
    /\ res.origin.number = env.safe.l1origin + 1

\* suggested - min(suggested, conf_depth)
Lagged(suggested, confDepth) ==
    suggested - (IF suggested < confDepth THEN suggested ELSE confDepth)
\* The origin the selector yields, at confirmation depth 0, for the lagged
\* suggestion of the closing header, and for the suggestion as it stands.
LaggedOrigin ==
    EspressoL1Origin(env.l1, 0, env.safe, Lagged(Get(TheJst.next).l1_head, env.confDepth))
UnlaggedOrigin == EspressoL1Origin(env.l1, 0, env.safe, Get(TheJst.next).l1_head)

\* C13: the selector evaluates its constraints on
\* suggested - min(suggested, conf_depth), which stops at 0; an accepted
\* batch has the lagged origin as its epoch, and a batch whose epoch is the
\* origin of the un-lagged suggestion, where that is another block, is
\* dropped once the check gets as far as the origin.
C13_ConfDepthAppliedFirstAndSaturates ==
    /\ res.op = "EspressoL1Origin" =>
           res.origin = EspressoL1Origin(env.l1, 0, env.safe,
                                         Lagged(res.suggested, env.confDepth))
    /\ Accepted => (LaggedOrigin.ok /\ TheBatch.epoch_num = LaggedOrigin.number)
    /\ (Checked /\ CommsVerified /\ BookendChecksPass /\ LaggedOrigin.ok
           /\ UnlaggedOrigin.ok /\ UnlaggedOrigin.number # LaggedOrigin.number
           /\ TheBatch.epoch_num = UnlaggedOrigin.number) => res.verdict = "drop"
C13_Witness ==
    /\ Accepted /\ env.confDepth > Get(TheJst.next).l1_head
    /\ Get(TheJst.next).l1_head > 0
    /\ UnlaggedOrigin.ok /\ UnlaggedOrigin.number # LaggedOrigin.number
    /\ TheBatch.epoch_num = LaggedOrigin.number
C13_WitnessDrop ==
    /\ Checked /\ res.verdict = "drop" /\ CommsVerified /\ BookendChecksPass
    /\ env.confDepth > 0 /\ LaggedOrigin.ok /\ UnlaggedOrigin.ok
    /\ UnlaggedOrigin.number # LaggedOrigin.number
    /\ TheBatch.epoch_num = UnlaggedOrigin.number

----------------------------------------------------------------------------
(* Properties of checkSingularBatch, checked under SpecCheck *)

CheckedSingular == res.op = "checkSingularBatch" /\ IsSome(batch)
\* The batch gets through the rules that precede the Espresso rules.
PreChecksPass ==
    singularPreChecks(env.espresso, res.l1Blocks, env.safe, TheBatch, res.inclusion) = "pass"

\* C11: with Espresso enabled, a batch without justification is dropped by
\* CheckBatchEspresso, and so is dropped by checkSingularBatch when it passes
\* the generic pre-checks.
C11_NoJustificationIsDropped ==
    /\ (res.op = "CheckBatchEspresso" /\ IsSome(batch) /\ ~IsSome(TheBatch.jst))
           => res.verdict = "drop"
    /\ (CheckedSingular /\ env.espresso /\ PreChecksPass /\ ~IsSome(TheBatch.jst))
           => res.verdict = "drop"
C11_Witness ==
    /\ CheckedSingular /\ env.espresso /\ PreChecksPass /\ ~IsSome(TheBatch.jst)
    /\ res.verdict = "drop" /\ Len(TheBatch.txs) # 0

\* C14: a batch checkSingularBatch accepts is the direct child of the safe
\* head: its parent hash is the safe head's hash and its timestamp is the
\* safe head's time plus BlockTime.
C14_AcceptedIsChildOfSafeHead ==
    (CheckedSingular /\ res.verdict = "accept") =>
        /\ TheBatch.parent_hash = env.safe.hash
        /\ TheBatch.timestamp = env.safe.time + BlockTime
C14_Witness ==
    /\ CheckedSingular /\ res.verdict = "accept" /\ env.espresso
    /\ IsSome(TheBatch.jst) /\ TheBatch.epoch_num = 1
    /\ TheBatch.parent_hash = env.safe.hash
    /\ TheBatch.timestamp = env.safe.time + BlockTime

\* The commitments the justification needs are not all recorded on L1.
CommsUnreadable == First(TheJst).height + Len(Comms(TheJst)) > env.published
Retried == "retried" \in DOMAIN res

\* C12: when the commitments cannot be read, CheckBatchEspresso answers
\* Undecided (so does checkSingularBatch for a batch that reaches the
\* Espresso rules), and a batch checked again once the commitments are
\* recorded is no longer held back by them.
C12_UnreadableCommitmentsGiveUndecided ==
    /\ (Checked /\ CommsUnreadable) => res.verdict = "undecided"
    /\ (CheckedSingular /\ env.espresso /\ PreChecksPass /\ IsSome(TheBatch.jst)
           /\ CommsUnreadable) => res.verdict = "undecided"
    /\ (Checked /\ Retried) => ~CommsUnreadable
C12_Witness ==
    /\ Checked /\ Retried /\ res.verdict = "accept"
C12_WitnessUndecided ==
    /\ CheckedSingular /\ env.espresso /\ PreChecksPass /\ IsSome(TheBatch.jst)
    /\ CommsUnreadable /\ res.verdict = "undecided"

----------------------------------------------------------------------------
(* Properties of the driver, checked under Spec *)

Sealed == IsSome(out.payload)
ThePayload == Get(out.payload)
\* The origin the validator's selector yields when it replays the payload.
ValidatorOrigin ==
    EspressoL1Origin(world.l1, world.confDepth, ThePayload.parent,
                     Get(ThePayload.jst.next).l1_head)

\* C1: every batch the driver seals into a payload is judged Accept by
\* CheckBatchEspresso run on the payload's parent with the same authenticated
\* commitments and the same L1 chain.
C1_SealedBatchIsAccepted == Sealed => out.verdict = "accept"

\* C9: the L1 origin the driver gives a payload it seals is the block the
\* validator's selector yields for the same parent, the same suggested L1
\* head, the same confirmation depth and the same L1 chain.
C9_SameOriginAtBothCallSites ==
    (Sealed /\ ValidatorOrigin.ok) => ValidatorOrigin.number = ThePayload.epoch_num

\* C10: the timestamp of every payload the driver emits is at or after the
\* time of the payload's L1 origin block.
C10_PayloadNotOlderThanOrigin == Sealed => ThePayload.timestamp >= ThePayload.epoch_time

\* The failure the last tick met, by class
Met(class) == out.err = class
Absorbed == out.err \in {"temporary", "reset", "unclassified"}

\* C15: RunNextSequencerAction returns an error exactly when the failure it
\* met is critical; a temporary, reset or unclassified failure is absorbed:
\* nil is returned and the next action is put off by a second, or by a block
\* time when the engine is asked to reset.
C15_ErrorReturnedIffCritical ==
    /\ (out.ret # "nil") <=> Met("critical")
    /\ Absorbed => /\ out.ret = "nil"
                   /\ ~Sealed
                   /\ seq.nextAction = IF out.reset THEN BlockTime ELSE 1
                   /\ out.reset => Met("reset")
C15_Witness == Met("critical") /\ out.ret = "critical" /\ IsSome(seq.espressoBatch)
C15_WitnessAbsorbed == Met("reset") /\ out.reset /\ seq.nextAction = BlockTime
C15_WitnessUnclassified == Met("unclassified") /\ out.ret = "nil" /\ seq.nextAction = 1

\* C16: whenever RunNextSequencerAction returns a payload, the engine's
\* unsafe head is the block of that payload, built on the block the batch
\* was started on; a tick that met a failure returns no payload.
C16_ReturnedPayloadIsEngineHead ==
    /\ Sealed => /\ eng.unsafe = L2RefOfPayload(ThePayload)
                 /\ eng.unsafe.number = ThePayload.parent.number + 1
                 /\ out.err = "nil"
    /\ out.err # "nil" => ~Sealed
C16_Witness == Sealed /\ eng.unsafe.number = MaxL2Blocks /\ eng.unsafe = L2RefOfPayload(ThePayload)
C16_WitnessFailedConfirm ==
    /\ ~Sealed /\ out.err # "nil"
    /\ IsSome(seq.espressoBatch) /\ complete(Get(seq.espressoBatch))
    /\ eng.unsafe = Get(seq.espressoBatch).onto

\* The in-progress batch, and whether a step ends it: afterwards there is
\* none, or one started on another block.
InProgress == IsSome(seq.espressoBatch)
TheInProgress == Get(seq.espressoBatch)
Destroyed ==
    /\ InProgress
    /\ ~InProgress' \/ TheInProgress'.onto # TheInProgress.onto

\* C18: a step destroys the in-progress batch only if it seals the batch
\* into a payload built on the batch's onto block, without error, or if the
\* engine's unsafe head is no longer that onto block; no step that meets an
\* error and no waiting tick destroys it otherwise.
C18_DestroyedOnlyBySealOrReorg ==
    [][Destroyed =>
         \/ /\ Sealed' /\ out'.err = "nil"
            /\ ThePayload'.parent = TheInProgress.onto
         \/ TheInProgress.onto # eng.unsafe]_vars
C18_Witness == Sealed /\ ~InProgress
C18_WitnessReorg == InProgress /\ TheInProgress.onto.fork > 0 /\ out.err = "nil" /\ ~Sealed
C18_WitnessErrorKeeps ==
    InProgress /\ complete(TheInProgress) /\ out.err \in {"critical", "reset"}

\* C19: a tick that fails with a transient error, when no reorg has made the
\* batch stale, leaves the in-progress batch as it was: none if there was
\* none, the same prev, blocks, next and transactions otherwise.
C19_FailedTickLeavesBatchUntouched ==
    [][(/\ out'.err \in {"temporary", "unclassified"}
        /\ InProgress => TheInProgress.onto = eng.unsafe)
       => seq'.espressoBatch = seq.espressoBatch]_vars
\* A failed tick has left a batch holding the first block of its window,
\* with the rest of the window still to be fetched.
C19_PartialFetchKept ==
    /\ out.err \in {"temporary", "unclassified"}
    /\ InProgress /\ ~complete(TheInProgress)
    /\ Len(TheInProgress.jst.blocks) = 1
    /\ Len(world.hs) > TheInProgress.jst.from + 1
    /\ world.hs[TheInProgress.jst.from + 2].timestamp < TheInProgress.windowEnd

\* What the query service may come to hold while a batch waits: what it
\* holds now, any prefix of it, and the same blocks with every timestamp
\* set to one value.
Retimed(hs, t) == [i \in 1..Len(hs) |-> [hs[i] EXCEPT !.timestamp = t]]
AnyService(hs) ==
    {SubSeq(hs, 1, n) : n \in 0..Len(hs)}
        \cup {Retimed(hs, t) : t \in SafeTime..(SafeTime + 3 * BlockTime)}
WindowClosed == InProgress /\ IsSome(TheInProgress.jst.next)

\* C20: once the next bookend of the in-progress batch is known, polling for
\* the rest of the window leaves the batch as it is (prev, blocks, next and
\* transactions) and fails on nothing, whatever the query service holds
\* and whichever of its calls would fail.
C20_ExtensionIdempotentAfterClosure ==
    WindowClosed =>
        \A hs \in AnyService(world.hs), fault \in Faults :
            extendEspressoBatch(hs, TheInProgress, fault)
                = [batch |-> TheInProgress, err |-> "nil"]
\* a closed batch that a failed seal has left in place, while the query
\* service holds a block past the bookend
C20_Witness ==
    /\ WindowClosed /\ out.err # "nil"
    /\ Len(TheInProgress.jst.blocks) > 0
    /\ Len(world.hs) > TheInProgress.jst.from + Len(TheInProgress.jst.blocks) + 1

----------------------------------------------------------------------------
(* Progress of the driver, checked under SpecLive *)

\* The driver can get on: the head is below the cap of the model, the query
\* service holds a block at or after the end of the window of the head's
\* child, and L1 has the block after the head's origin. With the head
\* unchanged this stays true once it is true.
WindowCanClose ==
    \E i \in 1..Len(world.hs) : world.hs[i].timestamp >= eng.unsafe.time + 2 * BlockTime
OriginCanBeFound == eng.unsafe.l1origin + 1 < Len(world.l1)
CanGetOn == eng.unsafe.number < MaxL2Blocks /\ WindowCanClose /\ OriginCanBeFound

\* C17: whatever temporary, reset and unclassified failures its ticks
\* meet, the driver never stays for ever in a state where the window of the
\* head's child can close: the child is sealed and becomes the head (or a
\* reorg replaces the head, and the same holds of the new head), unless a
\* critical error has been returned to the caller.
C17_ProgressUnderTransientFaults == []<>(~CanGetOn \/ out.ret # "nil")
\* a transient failure has held up a closed batch that can be sealed; the
\* chain has grown to the cap of the model across a reorg
C17_Witness == CanGetOn /\ Absorbed /\ WindowClosed /\ TheInProgress.onto = eng.unsafe
C17_WitnessGrown == eng.unsafe.number = MaxL2Blocks /\ eng.unsafe.fork = MaxForks

----------------------------------------------------------------------------
(* Properties of the query service clients, checked under SpecService *)

Fetched == res.op \in {"Client", "TestSequencer"}
OtherBlock ==
    /\ env.block < Len(env.hs)
    /\ Commit(env.hs[env.block + 1]) # Commit(env.header)

\* C21: FetchTransactionsInBlock fails whenever the block at the given
\* height has a commitment other than that of the expected header.
C21_FetchFailsOnOtherBlock == (Fetched /\ OtherBlock) => ~res.ok
\* the same of the test's query service alone
C21_TestSequencerFailsOnOtherBlock ==
    (res.op = "TestSequencer" /\ OtherBlock) => ~res.ok
\* the client has answered with the transactions of another block
C21_ClientAnswersForOtherBlock ==
    res.op = "Client" /\ OtherBlock /\ res.ok /\ Len(res.txs) > 0

----------------------------------------------------------------------------
(* Properties of the L1-info deposit codec, checked under SpecL1Info *)

Decoded == res.op = "L1BlockInfoFromBytes"
HasEmptyProof(j) ==
    IsSome(j) /\ \E i \in 1..Len(Get(j).blocks) : Get(j).blocks[i].proof = Some(<<>>)
EcotoneLayout(data) == SubSeq(data, 1, 4) = L1InfoFuncEcotoneBytes4

\* C22: the justification read from the calldata of the L1-info deposit is
\* the justification that was written, for every config, block time and
\* justification.
C22_JustificationSurvivesTransport ==
    Decoded => res.ok /\ res.info.justification = env.jst

\* C22, the part that holds: every justification without an empty proof
\* comes back as written, and so do the other fields.
C22_SurvivesWithoutEmptyProof ==
    (Decoded /\ ~HasEmptyProof(env.jst)) =>
        /\ res.ok
        /\ res.info = L1Info(env.block.number, env.block.time, env.seqNumber,
                             env.sysCfg.espresso, env.sysCfg.confDepth, env.jst)

\* C22: the absent justification is the single byte 0xc0 at the end of the
\* calldata, after byte 352 of the tuple in the Bedrock layout.
C22_AbsentIsC0 ==
    (res.op # "none" /\ ~IsSome(env.jst)) =>
        IF EcotoneLayout(res.data)
        THEN SubSeq(res.data, EcotoneFixedLen + 1, Len(res.data)) = <<192>>
        ELSE /\ SubSeq(res.data, 4 + WordLen + L1InfoJustificationOffset + 1,
                       4 + 2 * WordLen + L1InfoJustificationOffset) = Word(1)
             /\ res.data[4 + 2 * WordLen + L1InfoJustificationOffset + 1] = 192

\* C22: the layout is the Ecotone one exactly after the activation block.
C22_LayoutByForkRule ==
    res.op # "none" =>
        (EcotoneLayout(res.data) <=>
            /\ IsSome(env.rollupCfg.ecotoneTime)
            /\ env.l2BlockTime >= Get(env.rollupCfg.ecotoneTime)
            /\ (env.l2BlockTime = Get(env.rollupCfg.ecotoneTime) => env.l2BlockTime < BlockTime))

\* C22: a block proved by an empty proof comes back without its proof.
C22_EmptyProofLost ==
    /\ Decoded /\ res.ok /\ IsSome(env.jst) /\ IsSome(res.info.justification)
    /\ Len(Get(env.jst).blocks) = 1
    /\ Len(Get(res.info.justification).blocks) = 1
    /\ Get(env.jst).blocks[1].proof = Some(<<>>)
    /\ Get(res.info.justification).blocks[1].proof = None
    /\ env.rollupCfg.ecotoneTime = Some(env.l2BlockTime)

----------------------------------------------------------------------------
(* Properties of the selector's first constraint, checked under SpecCheck *)

\* The L1 block after the safe head's origin, and whether it may be the
\* origin of the batch on the safe head.
NextL1Block == L1BlockRefByNumber(env.l1, env.safe.l1origin + 1)
NextL1BlockEligible == NextL1Block.ok /\ NextL1Block.time <= env.safe.time + BlockTime
\* The lagged suggestion s leaves out an L1 block.
SkipsL1Block(s) == Lagged(s, env.confDepth) > env.safe.l1origin + 1
SameBatchAtEpoch(n) == [TheBatch EXCEPT !.epoch_num = n]

\* C23: for a lagged suggestion beyond the L1 block after the parent's
\* origin, the selector returns that next block if its time is at most the
\* window start and the parent's origin otherwise; so a batch that is
\* accepted on such a suggestion with the next block eligible has the next
\* block as its epoch, and the same batch with the parent's origin as its
\* epoch is dropped.
C23_NoL1Skip ==
    /\ (res.op = "EspressoL1Origin" /\ SkipsL1Block(res.suggested) /\ NextL1Block.ok) =>
           res.origin = IF NextL1BlockEligible THEN NextL1Block
                        ELSE L1BlockRefByNumber(env.l1, env.safe.l1origin)
    /\ (Checked /\ SkipsL1Block(Get(TheJst.next).l1_head) /\ NextL1BlockEligible) =>
           /\ Accepted =>
                  /\ TheBatch.epoch_num = env.safe.l1origin + 1
                  /\ CheckBatchEspresso(env, env.safe,
                                        SameBatchAtEpoch(env.safe.l1origin)) = "drop"
           /\ (CommsVerified /\ BookendChecksPass
                  /\ TheBatch.epoch_num = env.safe.l1origin) => res.verdict = "drop"
C23_Witness ==
    /\ Accepted /\ env.confDepth = 0 /\ NextL1BlockEligible
    /\ Get(TheJst.next).l1_head = env.safe.l1origin + 2
    /\ TheBatch.epoch_num = env.safe.l1origin + 1
C23_WitnessKeptEpochDropped ==
    /\ Checked /\ res.verdict = "drop" /\ env.confDepth = 0 /\ NextL1BlockEligible
    /\ Get(TheJst.next).l1_head = env.safe.l1origin + 2
    /\ TheBatch.epoch_num = env.safe.l1origin
    /\ CheckBatchEspresso(env, env.safe, SameBatchAtEpoch(env.safe.l1origin + 1)) = "accept"
C23_WitnessNotEligible ==
    /\ res.op = "EspressoL1Origin" /\ SkipsL1Block(res.suggested)
    /\ NextL1Block.ok /\ ~NextL1BlockEligible
    /\ res.origin.ok /\ res.origin.number = env.safe.l1origin

----------------------------------------------------------------------------
(* Properties of sealing, checked under SpecSeal *)

\* The tick sealed a batch whose window holds no block.
SealedEmptyWindow == Sealed /\ Len(ThePayload.jst.blocks) = 0
\* The tick sealed a batch on a suggestion that leaves out an L1 block.
SealedOnSkip ==
    /\ Sealed /\ Len(ThePayload.jst.blocks) # 0
    /\ Get(ThePayload.jst.next).l1_head > ThePayload.parent.l1origin + 1
\* The tick sealed a batch on a suggestion that is the parent's origin or the
\* block after it, and older than the drift allows.
SealedOnOldSuggestion ==
    /\ Sealed
    /\ Get(ThePayload.jst.next).l1_head \in
           {ThePayload.parent.l1origin, ThePayload.parent.l1origin + 1}
    /\ world.l1[Get(ThePayload.jst.next).l1_head + 1] + MaxSequencerDrift
           < ThePayload.parent.time + BlockTime

\* C24: a batch sealed on a window in which the external sequencer produced
\* no block has the parent's L1 origin and no transactions.
C24_EmptyWindowKeepsOrigin ==
    SealedEmptyWindow =>
        /\ Get(ThePayload.jst.next).timestamp >= ThePayload.timestamp + BlockTime
        /\ ThePayload.epoch_num = ThePayload.parent.l1origin
        /\ ThePayload.txs = <<>>
\* C24, the part that holds: no transactions.
C24_EmptyWindowHasNoTransactions ==
    SealedEmptyWindow =>
        /\ Get(ThePayload.jst.next).timestamp >= ThePayload.timestamp + BlockTime
        /\ ThePayload.txs = <<>>
\* C24: an empty window sealed with the block after the parent's origin,
\* which the closing header suggests and which is neither too old nor too new.
C24_EmptyWindowAdvances ==
    /\ SealedEmptyWindow /\ out.verdict = "accept"
    /\ Get(ThePayload.jst.next).l1_head = ThePayload.parent.l1origin + 1
    /\ ThePayload.epoch_num = ThePayload.parent.l1origin + 1
    /\ ThePayload.epoch_time + MaxSequencerDrift >= ThePayload.timestamp

\* C25: a batch sealed on a non-empty window whose closing header suggests
\* an L1 block beyond the one after the parent's origin has no transactions,
\* and its origin is the block after the parent's origin.
C25_SkipSealsEmptyOnNextOrigin ==
    SealedOnSkip =>
        /\ ThePayload.epoch_num = ThePayload.parent.l1origin + 1
        /\ ThePayload.txs = <<>>
\* C25, the part that holds: the origin.
C25_SkipSealsOnNextOrigin ==
    SealedOnSkip => ThePayload.epoch_num = ThePayload.parent.l1origin + 1
\* C25: such a batch sealed with the transactions of its window.
C25_SkipKeepsTransactions ==
    /\ SealedOnSkip /\ ThePayload.txs # <<>>
    /\ ThePayload.txs = TxsOfBlocks(ThePayload.jst.blocks)
    /\ ThePayload.epoch_num = ThePayload.parent.l1origin + 1

\* C26: a batch sealed on a suggestion that is too old has no transactions,
\* and its origin is the block after the parent's origin.
C26_OldSuggestionSealsEmptyOnNextOrigin ==
    SealedOnOldSuggestion =>
        /\ ThePayload.epoch_num = ThePayload.parent.l1origin + 1
        /\ ThePayload.txs = <<>>
\* C26, the part that holds: the origin; and the batch is empty where the
\* new origin is too old as well.
C26_OldSuggestionSealsOnNextOrigin ==
    SealedOnOldSuggestion =>
        /\ ThePayload.epoch_num = ThePayload.parent.l1origin + 1
        /\ ThePayload.epoch_time + MaxSequencerDrift < ThePayload.timestamp
               => ThePayload.txs = <<>>
\* C26: such a batch sealed with the transactions of its window.
C26_OldSuggestionKeepsTransactions ==
    /\ SealedOnOldSuggestion /\ ThePayload.txs # <<>>
    /\ ThePayload.epoch_num = ThePayload.parent.l1origin + 1
    /\ ThePayload.epoch_time + MaxSequencerDrift >= ThePayload.timestamp

----------------------------------------------------------------------------
(* Properties of the sequencer-drift guard, checked under SpecCheck *)

\* The L1 block the batch names as its epoch, where the pipeline holds it.
BatchAdvances == TheBatch.epoch_num = res.l1Blocks[1].number + 1
BatchOrigin == IF BatchAdvances THEN res.l1Blocks[2] ELSE res.l1Blocks[1]
\* The batch gets as far as the drift guard and is past the drift.
ExceedsDriftAtGuard ==
    /\ CheckedSingular /\ Len(res.l1Blocks) >= 1
    /\ TheBatch.timestamp = env.safe.time + BlockTime
    /\ TheBatch.parent_hash = env.safe.hash
    /\ TheBatch.epoch_num + SeqWindowSize >= res.inclusion
    /\ \/ TheBatch.epoch_num = res.l1Blocks[1].number
       \/ BatchAdvances /\ Len(res.l1Blocks) >= 2
    /\ TheBatch.epoch_hash = BatchOrigin.hash
    /\ TheBatch.timestamp >= BatchOrigin.time
    /\ TheBatch.timestamp > BatchOrigin.time + MaxSequencerDrift
\* The next L1 origin could have been adopted.
NextOriginAdoptable ==
    /\ ~BatchAdvances /\ Len(res.l1Blocks) >= 2
    /\ TheBatch.timestamp >= res.l1Blocks[2].time

\* C27: with Espresso enabled, an empty batch past the drift that keeps the
\* epoch gets through the drift guard although the next L1 origin could have
\* been adopted, and its verdict is the one of the Espresso rules; a batch
\* with transactions past the drift is dropped.
C27_DriftGuardAllowsEmptyBatch ==
    (ExceedsDriftAtGuard /\ env.espresso) =>
        /\ Len(TheBatch.txs) # 0 => res.verdict = "drop"
        /\ (Len(TheBatch.txs) = 0 /\ NextOriginAdoptable) =>
               /\ PreChecksPass
               /\ res.verdict = CheckBatchEspresso(env, env.safe, TheBatch)
C27_Witness ==
    /\ ExceedsDriftAtGuard /\ env.espresso /\ Len(TheBatch.txs) = 0
    /\ NextOriginAdoptable /\ PreChecksPass /\ IsSome(TheBatch.jst)
C27_WitnessNonEmptyDropped ==
    /\ ExceedsDriftAtGuard /\ env.espresso /\ TheBatch.txs = <<<<2, 1>>>>
    /\ res.verdict = "drop"
C27_WitnessLegacyDropped ==
    /\ ExceedsDriftAtGuard /\ ~env.espresso /\ Len(TheBatch.txs) = 0
    /\ NextOriginAdoptable /\ res.verdict = "drop"

----------------------------------------------------------------------------
(* Properties of the legacy path of checkSingularBatch, checked under SpecCheck *)

\* C28: with Espresso disabled the verdict is the one of the generic
\* pre-checks: a batch that passes them is accepted whatever its justification
\* holds and whatever the Espresso L1 provider would answer, and any other
\* verdict is the pre-checks' own.
C28_LegacyVerdictIsPreChecks ==
    (CheckedSingular /\ ~env.espresso) =>
        res.verdict =
            With(singularPreChecks(FALSE, res.l1Blocks, env.safe, TheBatch, res.inclusion),
                 LAMBDA pre : IF pre = "pass" THEN "accept" ELSE pre)
C28_Witness ==
    /\ CheckedSingular /\ ~env.espresso /\ PreChecksPass
    /\ TheBatch.jst = None /\ res.verdict = "accept"
\* Accepted although the provider could not have answered for the
\* justification the batch carries.
C28_WitnessProviderNotAsked ==
    /\ CheckedSingular /\ ~env.espresso /\ PreChecksPass /\ IsSome(TheBatch.jst)
    /\ CheckBatchEspresso(env, env.safe, TheBatch) = "undecided"
    /\ res.verdict = "accept"
C28_WitnessBadJustification ==
    /\ CheckedSingular /\ ~env.espresso /\ PreChecksPass /\ IsSome(TheBatch.jst)
    /\ CheckBatchEspresso(env, env.safe, TheBatch) = "drop"
    /\ res.verdict = "accept"

----------------------------------------------------------------------------
(* Properties of reorg recovery, checked under Spec *)

\* The driver holds a batch built onto a block that is no longer the head.
StaleBatch == seq.mode = "Espresso" /\ InProgress /\ TheInProgress.onto # eng.unsafe
\* A call of buildEspressoBatch meeting the given fault.
EspressoTick(fault) ==
    /\ seq.mode = "Espresso" /\ out.ret = "nil"
    /\ eng.unsafe.number < MaxL2Blocks
    /\ RunWith(fault)
    /\ UNCHANGED <<world, checkVars>>
\* A step of the driver that is a call of buildEspressoBatch: the scheduler's
\* call, unless the engine was building a safe block.
EngineBusyStep == seq' = [seq EXCEPT !.nextAction = BlockTime] /\ out' = NoOut /\ eng' = eng
BuildStep ==
    /\ seq.mode = "Espresso" /\ out.ret = "nil" /\ world' = world
    /\ ~EngineBusyStep /\ ~Reorg /\ ~ClockAdvance

\* C29: a tick that finds the batch built onto another block than the
\* engine's unsafe head discards it and, unless the tick meets an error,
\* starts a batch onto the head in that tick (which the tick may seal as
\* well); no tick returns a payload whose parent is not the head the tick
\* read.
C29_ReorgRestartsOnHead ==
    [][/\ (StaleBatch /\ BuildStep) =>
              /\ InProgress' => TheInProgress'.onto = eng.unsafe
              /\ out'.err = "nil" => (InProgress' /\ ~Sealed') \/ (~InProgress' /\ Sealed')
       /\ Sealed' => ThePayload'.parent = eng.unsafe]_vars
\* A stale batch, and a tick on it that discards it, starts a batch onto the
\* head and seals it.
C29_Witness ==
    /\ StaleBatch
    /\ ENABLED (EspressoTick(NoFault) /\ Sealed' /\ ~InProgress')
\* ... and one that starts a batch onto the head and leaves it open.
C29_WitnessRestarted ==
    /\ StaleBatch
    /\ ENABLED (EspressoTick(NoFault) /\ ~Sealed' /\ InProgress')

----------------------------------------------------------------------------
(* Properties of the planning of the next action, checked under SpecPlan *)

\* C30: while the driver holds a batch built onto another block than the
\* engine's unsafe head and the engine is not building a safe block, the
\* planned delay is zero, whatever the back-off left.
C30_ReorgPreemptsBackoff ==
    StaleBatch => PlanNextSequencerAction(seq, eng.unsafe, FALSE) = 0
\* A stale batch during a back-off, and the scheduler's call that restarts
\* onto the head.
C30_Witness ==
    /\ StaleBatch /\ seq.nextAction > 0
    /\ PlanNextSequencerAction(seq, eng.unsafe, FALSE) = 0
    /\ ENABLED (ScheduledAction /\ InProgress' /\ TheInProgress'.onto = eng.unsafe)
\* Without a reorg the back-off is awaited.
C30_WitnessBackoffAwaited ==
    /\ InProgress /\ ~StaleBatch /\ seq.nextAction > 0
    /\ PlanNextSequencerAction(seq, eng.unsafe, FALSE) = seq.nextAction
    /\ ~ENABLED ScheduledAction
\* While the engine builds a safe block the plan is a block time, reorg or not.
C30_WitnessEngineBusy ==
    /\ StaleBatch /\ seq.nextAction > 0
    /\ PlanNextSequencerAction(seq, eng.unsafe, TRUE) = BlockTime

----------------------------------------------------------------------------
(* Properties of the delay after a seal, checked under SpecPlan *)

\* C31: after a tick that sealed a batch, the delay planned next (the engine
\* not building a safe block) is zero.
C31_NoDelayAfterSeal ==
    Sealed => PlanNextSequencerAction(seq, eng.unsafe, FALSE) = 0
\* C31, what holds: the tick that seals leaves next_action as it found it, so
\* the plan is zero if no back-off was pending when the tick began.
C31_SealSetsNoDelay ==
    [][Sealed' => /\ seq'.nextAction = seq.nextAction
                  /\ seq.nextAction = 0 =>
                         PlanNextSequencerAction(seq', eng'.unsafe, FALSE) = 0]_vars
\* A seal by a tick that a reorg called in during a back-off: the back-off
\* is still pending.
C31_BackoffOutlivesSeal ==
    /\ Sealed /\ ~InProgress /\ ThePayload.parent.fork > 0
    /\ PlanNextSequencerAction(seq, eng.unsafe, FALSE) = 1
C31_WitnessImmediate ==
    /\ Sealed /\ ~InProgress /\ PlanNextSequencerAction(seq, eng.unsafe, FALSE) = 0

----------------------------------------------------------------------------
(* Properties of waiting for the window to close, checked under Spec *)

\* The driver holds a batch onto the head whose window it has not seen closed.
OpenBatch == InProgress /\ ~StaleBatch /\ ~complete(TheInProgress)
\* What the polling of the coming tick is answered for next: the first block
\* at or after the end of the window, if the query service has one.
PolledNext ==
    IF InProgress /\ ~StaleBatch
    THEN IF complete(TheInProgress) THEN TheInProgress.jst.next
         ELSE FetchRemainingHeadersForWindow(world.hs,
                  TheInProgress.jst.from + Len(TheInProgress.jst.blocks),
                  TheInProgress.windowEnd).next
    ELSE FetchHeadersForWindow(world.hs, eng.unsafe.time + BlockTime,
                               eng.unsafe.time + 2 * BlockTime).next
\* The blocks of ext are those of old followed by the blocks the service has
\* at the heights that follow.
ExtendsFrom(old, ext) ==
    /\ ext.jst.from = old.jst.from /\ ext.onto = old.onto
    /\ Len(ext.jst.blocks) >= Len(old.jst.blocks)
    /\ \A i \in 1..Len(ext.jst.blocks) :
          ext.jst.blocks[i].header =
              IF i <= Len(old.jst.blocks) THEN old.jst.blocks[i].header
              ELSE world.hs[old.jst.from + i]

\* C32: a tick that meets no error and whose polling finds the window not
\* closed returns no payload, leaves the engine's head alone, keeps a batch
\* onto the head, still open, and sets next_action one second ahead; a tick
\* on an open batch that meets no error polls from the height after the last
\* block of the batch, so what it adds are the blocks at the next heights.
C32_OpenWindowOnlyWaits ==
    [][(BuildStep /\ out'.err = "nil") =>
          /\ PolledNext = None =>
                 /\ ~Sealed' /\ eng' = eng /\ seq'.nextAction = 1
                 /\ InProgress' /\ ~complete(TheInProgress')
                 /\ TheInProgress'.onto = eng.unsafe
                 /\ OpenBatch => ExtendsFrom(TheInProgress, TheInProgress')
          /\ (OpenBatch /\ InProgress') => ExtendsFrom(TheInProgress, TheInProgress')
          /\ (OpenBatch /\ Sealed') =>
                 /\ ThePayload'.jst.from = TheInProgress.jst.from
                 /\ \A i \in 1..Len(ThePayload'.jst.blocks) :
                       ThePayload'.jst.blocks[i].header = world.hs[TheInProgress.jst.from + i]]_vars
\* An open batch with a block, a back-off of a second, and a tick on it that
\* adds the block at the next height and still finds the window open.
C32_Witness ==
    /\ OpenBatch /\ seq.nextAction = 1 /\ Len(TheInProgress.jst.blocks) = 1
    /\ PolledNext = None
    /\ ENABLED (EspressoTick(NoFault) /\ InProgress' /\ ~Sealed'
                /\ Len(TheInProgress'.jst.blocks) = 2)
\* ... and one that finds it closed after adding a block, and seals.
C32_WitnessClosedLater ==
    /\ OpenBatch /\ Len(TheInProgress.jst.blocks) = 1
    /\ ENABLED (EspressoTick(NoFault) /\ Sealed' /\ Len(ThePayload'.jst.blocks) = 2)

----------------------------------------------------------------------------
(* Properties of deferring to the engine, checked under SpecBusy *)

BuildingSafeBlock == env.buildingID # 0 /\ env.safe
\* A step that is a call of RunNextSequencerAction.
SchedulerStep ==
    /\ out.ret = "nil" /\ env' = env /\ world' = world
    /\ ~Reorg /\ ~ClockAdvance

\* C33: while the engine builds a safe block, a tick sets next_action a
\* block time ahead and changes nothing else (no batch started, extended or
\* dropped, no payload, no error, no reset, the engine's head as it was),
\* and the planned delay is a block time in every mode.
C33_DefersToSafeBlock ==
    [][(BuildingSafeBlock /\ SchedulerStep) =>
          /\ seq' = [seq EXCEPT !.nextAction = BlockTime]
          /\ eng' = eng
          /\ ~Sealed' /\ out'.err = "nil" /\ out'.ret = "nil" /\ ~out'.reset
          /\ PlanNextSequencerAction(seq, eng.unsafe, env.safe) = BlockTime
          /\ PlanNextSequencerAction(seq', eng'.unsafe, env.safe) = BlockTime]_vars
\* The engine builds a safe block while the driver holds a batch whose
\* window the query service has closed, and the tick leaves the batch.
C33_Witness ==
    /\ BuildingSafeBlock /\ InProgress /\ seq.nextAction = 0
    /\ IsSome(PolledNext)
    /\ ENABLED (RunNextSequencerActionBuilding /\ seq'.nextAction = BlockTime
                /\ seq'.espressoBatch = seq.espressoBatch /\ ~Sealed')
\* ... and while the mode is not known yet.
C33_WitnessUnknownMode ==
    /\ BuildingSafeBlock /\ seq.mode = "Unknown" /\ seq.nextAction = 0
    /\ ENABLED (RunNextSequencerActionBuilding /\ seq'.nextAction = BlockTime
                /\ seq'.mode = "Unknown")

----------------------------------------------------------------------------
(* Properties of a reset error at sealing, checked under Spec *)

\* The calls of sealEspressoBatch that may fail.
SealSites == {"origin", "attrs", "start", "confirm"}

\* C34: a tick whose sealing meets a reset error asks the engine to reset,
\* sets next_action a block time ahead, returns neither a payload nor an
\* error, and leaves the engine's head where it was.
C34_ResetErrorAtSealing ==
    [][\A at \in SealSites :
          (out'.err = "reset" /\ EspressoTick([at |-> at, class |-> "reset"])) =>
              /\ out'.reset
              /\ seq'.nextAction = BlockTime
              /\ ~Sealed' /\ out'.ret = "nil"
              /\ eng' = eng]_vars
\* The state such a tick leaves: the window of the batch is closed, so the
\* error was met in sealEspressoBatch.
C34_Witness ==
    /\ out.err = "reset" /\ out.reset /\ out.ret = "nil" /\ ~Sealed
    /\ seq.nextAction = BlockTime
    /\ InProgress /\ complete(TheInProgress) /\ TheInProgress.onto = eng.unsafe
\* A reset error met while starting the batch is not an engine error: no
\* reset is asked for, and the back-off is a second.
C34_WitnessNotAtSealing ==
    /\ out.err = "reset" /\ ~out.reset /\ seq.nextAction = 1 /\ seq.mode = "Espresso"

----------------------------------------------------------------------------
(* Properties of the check of the window end, checked under SpecWindow *)

\* Every block of the justification is stamped before the end of the window.
WithinWindow(blocks, windowEnd) ==
    \A i \in 1..Len(blocks) : blocks[i].header.timestamp < windowEnd
\* The coming tick polls the query service and is answered a closing block.
PollsClosedWindow ==
    /\ seq.mode = "Espresso" /\ ~(InProgress /\ ~StaleBatch /\ complete(TheInProgress))
    /\ IsSome(PolledNext)

\* C35: a tick that is answered a window holding a block stamped at or after
\* the end of the window returns a critical error to the host and no
\* payload; no batch in progress and no sealed justification ever holds a
\* block stamped at or after the end of its window.
C35_LateHeaderIsCritical ==
    [][/\ (PollsClosedWindow /\ EspressoTick(WindowFault)) =>
              /\ out'.ret = "critical" /\ out'.err = "critical"
              /\ ~Sealed' /\ eng' = eng
       /\ InProgress' => WithinWindow(TheInProgress'.jst.blocks, TheInProgress'.windowEnd)
       /\ Sealed' => WithinWindow(ThePayload'.jst.blocks,
                                  ThePayload'.parent.time + 2 * BlockTime)]_vars
\* The state after such a tick: the host got the critical error, the batch
\* holds the blocks of the window and not the late one.
C35_Witness ==
    /\ out.ret = "critical" /\ out.err = "critical" /\ ~Sealed
    /\ InProgress /\ Len(TheInProgress.jst.blocks) = 1 /\ ~complete(TheInProgress)
    /\ WithinWindow(TheInProgress.jst.blocks, TheInProgress.windowEnd)
    /\ Len(world.hs) > TheInProgress.jst.from + 1
    /\ world.hs[TheInProgress.jst.from + 2].timestamp >= TheInProgress.windowEnd

----------------------------------------------------------------------------
(* Properties of the batch in progress, checked under Spec *)

\* The batch was emptied by a sealing that then failed.
EmptiedAtSealing(b) ==
    /\ complete(b) /\ b.transactions = <<>>
    /\ \A i \in 1..Len(b.jst.blocks) : ~b.jst.blocks[i].proof

\* C36: whenever the driver holds a batch, its blocks are the blocks the
\* query service has at the heights from the first height of the batch on,
\* one per height and in that order, and its transactions are those of
\* these blocks, in that order, unless a sealing has emptied the batch.
C36_BatchIsConsistent ==
    InProgress =>
        /\ TheInProgress.jst.from + Len(TheInProgress.jst.blocks) <= Len(world.hs)
        /\ \A i \in 1..Len(TheInProgress.jst.blocks) :
              TheInProgress.jst.blocks[i].header = world.hs[TheInProgress.jst.from + i]
        /\ \/ TheInProgress.transactions = TxsOfBlocks(TheInProgress.jst.blocks)
           \/ EmptiedAtSealing(TheInProgress)
\* A tick failed after it had appended one block; the next block of the
\* window is still to come.
C36_Witness ==
    /\ InProgress /\ out.err = "temporary" /\ ~complete(TheInProgress)
    /\ Len(TheInProgress.jst.blocks) = 1 /\ Len(TheInProgress.transactions) = 1
    /\ Len(world.hs) > TheInProgress.jst.from + 1
    /\ world.hs[TheInProgress.jst.from + 2].timestamp < TheInProgress.windowEnd
\* ... and a later tick has appended it.
C36_WitnessRetried ==
    /\ InProgress /\ out.err = "nil" /\ Len(TheInProgress.jst.blocks) = 2
    /\ Len(TheInProgress.transactions) = 1
    /\ TheInProgress.jst.blocks[1].header.height + 1 = TheInProgress.jst.blocks[2].header.height
\* A sealing emptied the batch and then failed: the batch stays emptied.
C36_WitnessEmptied ==
    /\ InProgress /\ EmptiedAtSealing(TheInProgress)
    /\ TxsOfBlocks(TheInProgress.jst.blocks) # <<>>

----------------------------------------------------------------------------
(* Properties of blocks stamped out of order, checked under SpecOrder *)

\* A block of the justification is stamped no later than the block before
\* it, or before the start of the window.
OutOfOrder(jst, windowStart) ==
    \/ \E i \in 1..(Len(jst.blocks) - 1) :
          jst.blocks[i + 1].header.timestamp <= jst.blocks[i].header.timestamp
    \/ \E i \in 1..Len(jst.blocks) : jst.blocks[i].header.timestamp < windowStart

\* The origin the validator's selector yields for a sealed payload.
PayloadOrigin ==
    EspressoL1Origin(world.l1, world.confDepth, ThePayload.parent,
                     Get(ThePayload.jst.next).l1_head)

\* C37: a tick whose dependencies all answer meets no error whatever the
\* order of the timestamps the query service answers, and appends every
\* block of the window; the validator accepts every payload so sealed whose
\* bookends hold and whose epoch is the origin of its selector, also one
\* whose blocks are stamped out of order.
C37_OutOfOrderTolerated ==
    [][EspressoTick(NoFault) =>
          /\ out'.err = "nil"
          /\ InProgress' => ExtendsFrom(TheInProgress', TheInProgress')
          /\ (InProgress' /\ ~complete(TheInProgress')) =>
                 TheInProgress'.jst.from + Len(TheInProgress'.jst.blocks) = Len(world.hs)
          /\ (/\ Sealed'
              /\ checkBookends(ThePayload'.timestamp, ThePayload'.jst, "WindowStart")
              /\ checkBookends(ThePayload'.timestamp + BlockTime, ThePayload'.jst, "WindowEnd")
              /\ PayloadOrigin'.ok /\ PayloadOrigin'.number = ThePayload'.epoch_num) =>
                 out'.verdict = "accept"]_vars
\* A sealed and accepted payload whose second block is stamped before the
\* first.
C37_Witness ==
    /\ Sealed /\ out.verdict = "accept" /\ Len(ThePayload.jst.blocks) >= 2
    /\ ThePayload.jst.blocks[2].header.timestamp < ThePayload.jst.blocks[1].header.timestamp
\* ... stamped as the first
C37_WitnessEqual ==
    /\ Sealed /\ out.verdict = "accept" /\ Len(ThePayload.jst.blocks) >= 2
    /\ ThePayload.jst.blocks[2].header.timestamp = ThePayload.jst.blocks[1].header.timestamp
\* ... stamped before the start of the window
C37_WitnessBeforeWindow ==
    /\ Sealed /\ out.verdict = "accept" /\ Len(ThePayload.jst.blocks) >= 2
    /\ ThePayload.jst.blocks[2].header.timestamp < ThePayload.timestamp

----------------------------------------------------------------------------
(* Properties of the undecided verdict, checked under SpecCheck *)

CheckedEspresso == res.op = "CheckBatchEspresso" /\ IsSome(batch)
\* The provider can read the commitments the justification is compared to.
CommsReadable == First(TheJst).height + Len(Comms(TheJst)) <= env.published
\* The provider has the L1 block of that number.
L1Has(n) == n < Len(env.l1)
\* The provider has every L1 block the selector may look up.
LookupsAnswered ==
    /\ L1Has(env.safe.l1origin + 1)
    /\ L1Has(Lagged(Get(TheJst.next).l1_head, env.confDepth))

\* C38: the verdict of the Espresso rules is Accept, Drop or Undecided, and
\* it is Undecided only if the provider cannot read the commitments or lacks
\* an L1 block the selector may look up.
C38_UndecidedOnlyOnProviderFailure ==
    CheckedEspresso =>
        /\ res.verdict \in {"accept", "drop", "undecided"}
        /\ res.verdict = "undecided" =>
               /\ IsSome(TheBatch.jst)
               /\ ~CommsReadable \/ ~LookupsAnswered
C38_Witness ==
    /\ Checked /\ res.verdict = "undecided" /\ ~CommsReadable
\* Undecided on the lookup of the origin.
C38_WitnessLookup ==
    /\ Checked /\ res.verdict = "undecided" /\ CommsReadable /\ ~LookupsAnswered
\* The provider answers, the commitments differ: dropped.
C38_WitnessAnswered ==
    /\ Checked /\ res.verdict = "drop" /\ CommsReadable /\ LookupsAnswered
    /\ ~CommsVerified

----------------------------------------------------------------------------
(* Properties of the transactions of a sealed payload, checked under Spec *)

\* The payload is one that must be empty: its origin is older than the
\* drift allows.
PayloadMustBeEmpty ==
    EspressoBatchMustBeEmpty([time |-> ThePayload.epoch_time], ThePayload.timestamp)

\* C39: the blocks of a sealed payload's justification are the headers of
\* the batch; where the batch need not be empty, the transactions after the
\* deposits are those of these blocks, in order, and nothing else, and every
\* block has its proof; where it must be empty, there are no transactions
\* and no proofs.
C39_PayloadHoldsBatchTransactions ==
    Sealed =>
        /\ \A i \in 1..Len(ThePayload.jst.blocks) :
              ThePayload.jst.blocks[i].header = world.hs[ThePayload.jst.from + i]
        /\ IF PayloadMustBeEmpty
           THEN /\ ThePayload.txs = <<>>
                /\ \A i \in 1..Len(ThePayload.jst.blocks) : ~ThePayload.jst.blocks[i].proof
           ELSE /\ ThePayload.txs = TxsOfBlocks(ThePayload.jst.blocks)
                /\ \A i \in 1..Len(ThePayload.jst.blocks) : ThePayload.jst.blocks[i].proof
C39_Witness ==
    /\ Sealed /\ ~PayloadMustBeEmpty /\ Len(ThePayload.txs) >= 1
    /\ Len(ThePayload.jst.blocks) = 2
\* A payload that must be empty, of blocks that hold transactions.
C39_WitnessEmptied ==
    /\ Sealed /\ PayloadMustBeEmpty /\ ThePayload.txs = <<>>
    /\ TxsOfBlocks(ThePayload.jst.blocks) # <<>>

====
